---------------------------- MODULE Spec2Model ----------------------------
(***************************************************************************)
(* Assignment of discovered Azure resources to assessment agents, the      *)
(* four-wave execution plan built from the assignments, the AssessmentPlan *)
(* with its trailing correlation step, and the catalog of relationships    *)
(* and correlation rules with its query methods.                           *)
(*                                                                         *)
(*   kernel_agents/intelligent_agent_selector.py  IntelligentAgentSelector *)
(*                                                ResourceDependencyGraph  *)
(*   kernel_agents/azure_assessment_planner_agent.py  AssessmentPlan       *)
(*                                          AzureAssessmentPlannerAgent    *)
(*   kernel_agents/cross_agent_intelligence.py    CrossAgentIntelligence   *)
(*   models/agent_categories.py                   ExtendedAgentType        *)
(*                                                                         *)
(* Python values are modelled as follows.  A str is a TLA+ string, except  *)
(* the "kind" of a resource, which is a sequence of one-character strings  *)
(* so that lower() and startswith() are computed.  None is the string      *)
(* None below; a key missing from a dict is a boolean "has_" field or a    *)
(* tag.  A dict is a function, a set a set, a list a sequence.  A float    *)
(* ratio is kept exact as a record [num, den].                             *)
(***************************************************************************)
EXTENDS Integers, Sequences, FiniteSets, TLC

(* Bounds of the model. *)
MaxResources == 2
MaxCorrelationCalls == 2
MaxDiscovered == 1
MaxRuleCategories == 2
MaxPluginCalls == 4

None == "None"

(***************************************************************************)
(* models/agent_categories.py: member name -> value of the str enum.       *)
(***************************************************************************)
ExtendedAgentType ==
       "VM_ASSESSMENT" :> "VM_Assessment_Agent"
    @@ "AKS_ASSESSMENT" :> "AKS_Assessment_Agent"
    @@ "APP_SERVICE_ASSESSMENT" :> "App_Service_Assessment_Agent"
    @@ "FUNCTIONS_ASSESSMENT" :> "Functions_Assessment_Agent"
    @@ "CONTAINER_INSTANCES_ASSESSMENT" :> "Container_Instances_Assessment_Agent"
    @@ "STORAGE_ASSESSMENT" :> "Storage_Assessment_Agent"
    @@ "MANAGED_DISKS_ASSESSMENT" :> "Managed_Disks_Assessment_Agent"
    @@ "FILE_SHARES_ASSESSMENT" :> "File_Shares_Assessment_Agent"
    @@ "VNET_ASSESSMENT" :> "VNet_Assessment_Agent"
    @@ "NSG_ASSESSMENT" :> "NSG_Assessment_Agent"
    @@ "LOAD_BALANCER_ASSESSMENT" :> "Load_Balancer_Assessment_Agent"
    @@ "APP_GATEWAY_ASSESSMENT" :> "App_Gateway_Assessment_Agent"
    @@ "FIREWALL_ASSESSMENT" :> "Firewall_Assessment_Agent"
    @@ "SQL_ASSESSMENT" :> "SQL_Assessment_Agent"
    @@ "COSMOS_DB_ASSESSMENT" :> "Cosmos_DB_Assessment_Agent"
    @@ "DEVOPS_ASSESSMENT" :> "DevOps_Assessment_Agent"
    @@ "API_MANAGEMENT_ASSESSMENT" :> "API_Management_Assessment_Agent"
    @@ "CONTAINER_REGISTRY_ASSESSMENT" :> "Container_Registry_Assessment_Agent"
    @@ "LOGIC_APPS_ASSESSMENT" :> "Logic_Apps_Assessment_Agent"
    @@ "SERVICE_BUS_ASSESSMENT" :> "Service_Bus_Assessment_Agent"
    @@ "EVENT_GRID_ASSESSMENT" :> "Event_Grid_Assessment_Agent"
    @@ "GIT_REPOS_ASSESSMENT" :> "Git_Repos_Assessment_Agent"
    @@ "ARTIFACTS_ASSESSMENT" :> "Artifacts_Assessment_Agent"
    @@ "SYNAPSE_ASSESSMENT" :> "Synapse_Assessment_Agent"
    @@ "DATA_FACTORY_ASSESSMENT" :> "Data_Factory_Assessment_Agent"
    @@ "DATABRICKS_ASSESSMENT" :> "Databricks_Assessment_Agent"
    @@ "HDINSIGHT_ASSESSMENT" :> "HDInsight_Assessment_Agent"
    @@ "EVENT_HUBS_ASSESSMENT" :> "Event_Hubs_Assessment_Agent"
    @@ "STREAM_ANALYTICS_ASSESSMENT" :> "Stream_Analytics_Assessment_Agent"
    @@ "IOT_HUB_ASSESSMENT" :> "IoT_Hub_Assessment_Agent"
    @@ "DATA_LAKE_ASSESSMENT" :> "Data_Lake_Assessment_Agent"
    @@ "BLOB_ANALYTICS_ASSESSMENT" :> "Blob_Analytics_Assessment_Agent"
    @@ "DATA_EXPLORER_ASSESSMENT" :> "Data_Explorer_Assessment_Agent"
    @@ "AZURE_AD_ASSESSMENT" :> "Azure_AD_Assessment_Agent"
    @@ "B2C_ASSESSMENT" :> "B2C_Assessment_Agent"
    @@ "MANAGED_IDENTITY_ASSESSMENT" :> "Managed_Identity_Assessment_Agent"
    @@ "KEY_VAULT_ASSESSMENT" :> "Key_Vault_Assessment_Agent"
    @@ "DEFENDER_ASSESSMENT" :> "Defender_Assessment_Agent"
    @@ "SENTINEL_ASSESSMENT" :> "Sentinel_Assessment_Agent"
    @@ "DDOS_PROTECTION_ASSESSMENT" :> "DDoS_Protection_Assessment_Agent"
    @@ "POLICY_ASSESSMENT" :> "Policy_Assessment_Agent"
    @@ "LOG_ANALYTICS_ASSESSMENT" :> "Log_Analytics_Assessment_Agent"
    @@ "APP_INSIGHTS_ASSESSMENT" :> "App_Insights_Assessment_Agent"
    @@ "MONITOR_ASSESSMENT" :> "Monitor_Assessment_Agent"
    @@ "AUTOMATION_ASSESSMENT" :> "Automation_Assessment_Agent"
    @@ "UPDATE_MANAGEMENT_ASSESSMENT" :> "Update_Management_Assessment_Agent"
    @@ "COST_MANAGEMENT_ASSESSMENT" :> "Cost_Management_Assessment_Agent"
    @@ "MACHINE_LEARNING_ASSESSMENT" :> "Machine_Learning_Assessment_Agent"
    @@ "COGNITIVE_SERVICES_ASSESSMENT" :> "Cognitive_Services_Assessment_Agent"
    @@ "BOT_SERVICE_ASSESSMENT" :> "Bot_Service_Assessment_Agent"
    @@ "COGNITIVE_SEARCH_ASSESSMENT" :> "Cognitive_Search_Assessment_Agent"
    @@ "FORM_RECOGNIZER_ASSESSMENT" :> "Form_Recognizer_Assessment_Agent"

agent_mapping ==
       "Microsoft.Compute/virtualMachines" :> ExtendedAgentType["VM_ASSESSMENT"]
    @@ "Microsoft.Compute/virtualMachineScaleSets" :> ExtendedAgentType["VM_ASSESSMENT"]
    @@ "Microsoft.ContainerService/managedClusters" :> ExtendedAgentType["AKS_ASSESSMENT"]
    @@ "Microsoft.Web/sites" :> ExtendedAgentType["APP_SERVICE_ASSESSMENT"]
    @@ "Microsoft.Web/serverFarms" :> ExtendedAgentType["APP_SERVICE_ASSESSMENT"]
    @@ "Microsoft.ContainerInstance/containerGroups" :> ExtendedAgentType["CONTAINER_INSTANCES_ASSESSMENT"]
    @@ "Microsoft.Storage/storageAccounts" :> ExtendedAgentType["STORAGE_ASSESSMENT"]
    @@ "Microsoft.Compute/disks" :> ExtendedAgentType["MANAGED_DISKS_ASSESSMENT"]
    @@ "Microsoft.Storage/storageAccounts/fileServices/shares" :> ExtendedAgentType["FILE_SHARES_ASSESSMENT"]
    @@ "Microsoft.Network/virtualNetworks" :> ExtendedAgentType["VNET_ASSESSMENT"]
    @@ "Microsoft.Network/networkSecurityGroups" :> ExtendedAgentType["NSG_ASSESSMENT"]
    @@ "Microsoft.Network/loadBalancers" :> ExtendedAgentType["LOAD_BALANCER_ASSESSMENT"]
    @@ "Microsoft.Network/applicationGateways" :> ExtendedAgentType["APP_GATEWAY_ASSESSMENT"]
    @@ "Microsoft.Network/azureFirewalls" :> ExtendedAgentType["FIREWALL_ASSESSMENT"]
    @@ "Microsoft.Sql/servers" :> ExtendedAgentType["SQL_ASSESSMENT"]
    @@ "Microsoft.DocumentDB/databaseAccounts" :> ExtendedAgentType["COSMOS_DB_ASSESSMENT"]
    @@ "Microsoft.DevOps/pipelines" :> ExtendedAgentType["DEVOPS_ASSESSMENT"]
    @@ "Microsoft.ApiManagement/service" :> ExtendedAgentType["API_MANAGEMENT_ASSESSMENT"]
    @@ "Microsoft.ContainerRegistry/registries" :> ExtendedAgentType["CONTAINER_REGISTRY_ASSESSMENT"]
    @@ "Microsoft.Logic/workflows" :> ExtendedAgentType["LOGIC_APPS_ASSESSMENT"]
    @@ "Microsoft.ServiceBus/namespaces" :> ExtendedAgentType["SERVICE_BUS_ASSESSMENT"]
    @@ "Microsoft.EventGrid/topics" :> ExtendedAgentType["EVENT_GRID_ASSESSMENT"]
    @@ "Microsoft.EventGrid/domains" :> ExtendedAgentType["EVENT_GRID_ASSESSMENT"]
    @@ "Microsoft.Synapse/workspaces" :> ExtendedAgentType["SYNAPSE_ASSESSMENT"]
    @@ "Microsoft.DataFactory/factories" :> ExtendedAgentType["DATA_FACTORY_ASSESSMENT"]
    @@ "Microsoft.Databricks/workspaces" :> ExtendedAgentType["DATABRICKS_ASSESSMENT"]
    @@ "Microsoft.HDInsight/clusters" :> ExtendedAgentType["HDINSIGHT_ASSESSMENT"]
    @@ "Microsoft.EventHub/namespaces" :> ExtendedAgentType["EVENT_HUBS_ASSESSMENT"]
    @@ "Microsoft.StreamAnalytics/streamingjobs" :> ExtendedAgentType["STREAM_ANALYTICS_ASSESSMENT"]
    @@ "Microsoft.Devices/IotHubs" :> ExtendedAgentType["IOT_HUB_ASSESSMENT"]
    @@ "Microsoft.DataLakeStore/accounts" :> ExtendedAgentType["DATA_LAKE_ASSESSMENT"]
    @@ "Microsoft.DataLakeAnalytics/accounts" :> ExtendedAgentType["DATA_LAKE_ASSESSMENT"]
    @@ "Microsoft.Kusto/clusters" :> ExtendedAgentType["DATA_EXPLORER_ASSESSMENT"]
    @@ "Microsoft.AAD/domainServices" :> ExtendedAgentType["AZURE_AD_ASSESSMENT"]
    @@ "Microsoft.AzureActiveDirectory/b2cDirectories" :> ExtendedAgentType["B2C_ASSESSMENT"]
    @@ "Microsoft.ManagedIdentity/userAssignedIdentities" :> ExtendedAgentType["MANAGED_IDENTITY_ASSESSMENT"]
    @@ "Microsoft.KeyVault/vaults" :> ExtendedAgentType["KEY_VAULT_ASSESSMENT"]
    @@ "Microsoft.Security/pricings" :> ExtendedAgentType["DEFENDER_ASSESSMENT"]
    @@ "Microsoft.Security/securityStandards" :> ExtendedAgentType["DEFENDER_ASSESSMENT"]
    @@ "Microsoft.SecurityInsights/alertRules" :> ExtendedAgentType["SENTINEL_ASSESSMENT"]
    @@ "Microsoft.Network/ddosProtectionPlans" :> ExtendedAgentType["DDOS_PROTECTION_ASSESSMENT"]
    @@ "Microsoft.Authorization/policyDefinitions" :> ExtendedAgentType["POLICY_ASSESSMENT"]
    @@ "Microsoft.OperationalInsights/workspaces" :> ExtendedAgentType["LOG_ANALYTICS_ASSESSMENT"]
    @@ "Microsoft.Insights/components" :> ExtendedAgentType["APP_INSIGHTS_ASSESSMENT"]
    @@ "Microsoft.Insights/metricAlerts" :> ExtendedAgentType["MONITOR_ASSESSMENT"]
    @@ "Microsoft.Insights/actionGroups" :> ExtendedAgentType["MONITOR_ASSESSMENT"]
    @@ "Microsoft.Automation/automationAccounts" :> ExtendedAgentType["AUTOMATION_ASSESSMENT"]
    @@ "Microsoft.CostManagement/exports" :> ExtendedAgentType["COST_MANAGEMENT_ASSESSMENT"]
    @@ "Microsoft.CostManagement/budgets" :> ExtendedAgentType["COST_MANAGEMENT_ASSESSMENT"]
    @@ "Microsoft.MachineLearningServices/workspaces" :> ExtendedAgentType["MACHINE_LEARNING_ASSESSMENT"]
    @@ "Microsoft.CognitiveServices/accounts" :> ExtendedAgentType["COGNITIVE_SERVICES_ASSESSMENT"]
    @@ "Microsoft.BotService/botServices" :> ExtendedAgentType["BOT_SERVICE_ASSESSMENT"]
    @@ "Microsoft.Search/searchServices" :> ExtendedAgentType["COGNITIVE_SEARCH_ASSESSMENT"]

agent_capabilities ==
       ExtendedAgentType["VM_ASSESSMENT"] :>
         [checks |-> <<"security", "performance", "cost", "availability">>,
          related_resources |-> <<"disks", "nics", "nsg">>,
          execution_time |-> 30, priority |-> 1]
    @@ ExtendedAgentType["AKS_ASSESSMENT"] :>
         [checks |-> <<"security", "scalability", "networking", "cost">>,
          related_resources |-> <<"acr", "keyvault", "log_analytics">>,
          execution_time |-> 120, priority |-> 1]
    @@ ExtendedAgentType["APP_SERVICE_ASSESSMENT"] :>
         [checks |-> <<"security", "performance", "cost", "scalability">>,
          related_resources |-> <<"storage", "database", "app_insights">>,
          execution_time |-> 45, priority |-> 1]
    @@ ExtendedAgentType["FUNCTIONS_ASSESSMENT"] :>
         [checks |-> <<"security", "performance", "cost", "scalability">>,
          related_resources |-> <<"storage", "app_insights", "service_bus">>,
          execution_time |-> 40, priority |-> 2]
    @@ ExtendedAgentType["CONTAINER_INSTANCES_ASSESSMENT"] :>
         [checks |-> <<"security", "performance", "cost", "availability">>,
          related_resources |-> <<"acr", "vnet", "nsg">>,
          execution_time |-> 60, priority |-> 2]
    @@ ExtendedAgentType["STORAGE_ASSESSMENT"] :>
         [checks |-> <<"security", "performance", "cost", "availability">>,
          related_resources |-> <<"blobs", "files", "queues">>,
          execution_time |-> 30, priority |-> 1]
    @@ ExtendedAgentType["MANAGED_DISKS_ASSESSMENT"] :>
         [checks |-> <<"performance", "cost", "availability", "redundancy">>,
          related_resources |-> <<"vms", "snapshots">>,
          execution_time |-> 20, priority |-> 2]
    @@ ExtendedAgentType["FILE_SHARES_ASSESSMENT"] :>
         [checks |-> <<"security", "performance", "cost", "sharing">>,
          related_resources |-> <<"storage_accounts", "vnet">>,
          execution_time |-> 25, priority |-> 2]
    @@ ExtendedAgentType["VNET_ASSESSMENT"] :>
         [checks |-> <<"security", "networking", "cost", "connectivity">>,
          related_resources |-> <<"subnets", "nsg", "load_balancers">>,
          execution_time |-> 40, priority |-> 1]
    @@ ExtendedAgentType["NSG_ASSESSMENT"] :>
         [checks |-> <<"security", "compliance", "networking">>,
          related_resources |-> <<"vnets", "vms", "subnets">>,
          execution_time |-> 30, priority |-> 1]
    @@ ExtendedAgentType["LOAD_BALANCER_ASSESSMENT"] :>
         [checks |-> <<"performance", "availability", "cost", "scalability">>,
          related_resources |-> <<"backends", "health_probes">>,
          execution_time |-> 50, priority |-> 1]
    @@ ExtendedAgentType["APP_GATEWAY_ASSESSMENT"] :>
         [checks |-> <<"security", "performance", "cost", "waf">>,
          related_resources |-> <<"backends", "ssl", "vnet">>,
          execution_time |-> 60, priority |-> 1]
    @@ ExtendedAgentType["FIREWALL_ASSESSMENT"] :>
         [checks |-> <<"security", "networking", "cost", "rules">>,
          related_resources |-> <<"vnet", "policies", "logs">>,
          execution_time |-> 70, priority |-> 1]
    @@ ExtendedAgentType["SQL_ASSESSMENT"] :>
         [checks |-> <<"security", "performance", "cost", "backup">>,
          related_resources |-> <<"databases", "firewalls", "vnet">>,
          execution_time |-> 50, priority |-> 1]
    @@ ExtendedAgentType["COSMOS_DB_ASSESSMENT"] :>
         [checks |-> <<"security", "performance", "cost", "scalability">>,
          related_resources |-> <<"containers", "throughput", "backups">>,
          execution_time |-> 55, priority |-> 1]
    @@ ExtendedAgentType["DEVOPS_ASSESSMENT"] :>
         [checks |-> <<"compliance", "performance", "cost", "integration">>,
          related_resources |-> <<"repos", "artifacts", "builds">>,
          execution_time |-> 60, priority |-> 2]
    @@ ExtendedAgentType["API_MANAGEMENT_ASSESSMENT"] :>
         [checks |-> <<"security", "performance", "cost", "api_versioning">>,
          related_resources |-> <<"gateways", "backends", "policies">>,
          execution_time |-> 70, priority |-> 1]
    @@ ExtendedAgentType["CONTAINER_REGISTRY_ASSESSMENT"] :>
         [checks |-> <<"security", "compliance", "cost", "vulnerability_scans">>,
          related_resources |-> <<"images", "repositories", "tasks">>,
          execution_time |-> 50, priority |-> 1]
    @@ ExtendedAgentType["LOGIC_APPS_ASSESSMENT"] :>
         [checks |-> <<"performance", "cost", "integration", "error_handling">>,
          related_resources |-> <<"connectors", "runs", "triggers">>,
          execution_time |-> 40, priority |-> 2]
    @@ ExtendedAgentType["SERVICE_BUS_ASSESSMENT"] :>
         [checks |-> <<"security", "performance", "cost", "messaging">>,
          related_resources |-> <<"queues", "topics", "subscriptions">>,
          execution_time |-> 45, priority |-> 1]
    @@ ExtendedAgentType["EVENT_GRID_ASSESSMENT"] :>
         [checks |-> <<"performance", "cost", "event_delivery", "reliability">>,
          related_resources |-> <<"subscriptions", "domains", "topics">>,
          execution_time |-> 50, priority |-> 2]
    @@ ExtendedAgentType["GIT_REPOS_ASSESSMENT"] :>
         [checks |-> <<"security", "compliance", "branching", "code_quality">>,
          related_resources |-> <<"pipelines", "pulls", "branches">>,
          execution_time |-> 30, priority |-> 2]
    @@ ExtendedAgentType["ARTIFACTS_ASSESSMENT"] :>
         [checks |-> <<"compliance", "versioning", "cost", "dependencies">>,
          related_resources |-> <<"feeds", "packages", "pipelines">>,
          execution_time |-> 35, priority |-> 2]
    @@ ExtendedAgentType["SYNAPSE_ASSESSMENT"] :>
         [checks |-> <<"security", "performance", "cost", "data_integration">>,
          related_resources |-> <<"pools", "pipelines", "datasets">>,
          execution_time |-> 90, priority |-> 1]
    @@ ExtendedAgentType["DATA_FACTORY_ASSESSMENT"] :>
         [checks |-> <<"compliance", "performance", "cost", "pipelines">>,
          related_resources |-> <<"datasets", "linked_services", "triggers">>,
          execution_time |-> 80, priority |-> 1]
    @@ ExtendedAgentType["DATABRICKS_ASSESSMENT"] :>
         [checks |-> <<"security", "cost", "scalability", "clusters">>,
          related_resources |-> <<"jobs", "notebooks", "clusters">>,
          execution_time |-> 100, priority |-> 1]
    @@ ExtendedAgentType["HDINSIGHT_ASSESSMENT"] :>
         [checks |-> <<"performance", "cost", "availability", "hadoop_components">>,
          related_resources |-> <<"nodes", "storage", "jobs">>,
          execution_time |-> 120, priority |-> 2]
    @@ ExtendedAgentType["EVENT_HUBS_ASSESSMENT"] :>
         [checks |-> <<"security", "performance", "cost", "throughput">>,
          related_resources |-> <<"clusters", "namespaces", "hubs">>,
          execution_time |-> 60, priority |-> 1]
    @@ ExtendedAgentType["STREAM_ANALYTICS_ASSESSMENT"] :>
         [checks |-> <<"performance", "cost", "streaming", "error_handling">>,
          related_resources |-> <<"inputs", "outputs", "queries">>,
          execution_time |-> 70, priority |-> 2]
    @@ ExtendedAgentType["IOT_HUB_ASSESSMENT"] :>
         [checks |-> <<"security", "scalability", "cost", "device_management">>,
          related_resources |-> <<"devices", "endpoints", "routes">>,
          execution_time |-> 80, priority |-> 1]
    @@ ExtendedAgentType["DATA_LAKE_ASSESSMENT"] :>
         [checks |-> <<"security", "performance", "cost", "data_ingestion">>,
          related_resources |-> <<"stores", "jobs", "catalogs">>,
          execution_time |-> 90, priority |-> 2]
    @@ ExtendedAgentType["BLOB_ANALYTICS_ASSESSMENT"] :>
         [checks |-> <<"performance", "cost", "analytics", "logging">>,
          related_resources |-> <<"blobs", "diagnostics", "metrics">>,
          execution_time |-> 40, priority |-> 2]
    @@ ExtendedAgentType["DATA_EXPLORER_ASSESSMENT"] :>
         [checks |-> <<"security", "performance", "cost", "querying">>,
          related_resources |-> <<"databases", "tables", "clusters">>,
          execution_time |-> 75, priority |-> 1]
    @@ ExtendedAgentType["AZURE_AD_ASSESSMENT"] :>
         [checks |-> <<"security", "compliance", "identity", "access">>,
          related_resources |-> <<"users", "groups", "domains">>,
          execution_time |-> 50, priority |-> 1]
    @@ ExtendedAgentType["B2C_ASSESSMENT"] :>
         [checks |-> <<"security", "identity", "authentication", "user_flows">>,
          related_resources |-> <<"tenants", "policies", "apps">>,
          execution_time |-> 60, priority |-> 1]
    @@ ExtendedAgentType["MANAGED_IDENTITY_ASSESSMENT"] :>
         [checks |-> <<"security", "compliance", "access_control">>,
          related_resources |-> <<"roles", "assignments", "principals">>,
          execution_time |-> 30, priority |-> 2]
    @@ ExtendedAgentType["KEY_VAULT_ASSESSMENT"] :>
         [checks |-> <<"security", "compliance", "secrets_management", "encryption">>,
          related_resources |-> <<"keys", "secrets", "certificates">>,
          execution_time |-> 40, priority |-> 1]
    @@ ExtendedAgentType["DEFENDER_ASSESSMENT"] :>
         [checks |-> <<"security", "threat_protection", "compliance", "alerts">>,
          related_resources |-> <<"subscriptions", "resources", "recommendations">>,
          execution_time |-> 90, priority |-> 1]
    @@ ExtendedAgentType["SENTINEL_ASSESSMENT"] :>
         [checks |-> <<"security", "incident_response", "analytics", "hunting">>,
          related_resources |-> <<"workspaces", "rules", "incidents">>,
          execution_time |-> 100, priority |-> 1]
    @@ ExtendedAgentType["DDOS_PROTECTION_ASSESSMENT"] :>
         [checks |-> <<"security", "network_protection", "cost", "mitigation">>,
          related_resources |-> <<"vnets", "public_ips", "logs">>,
          execution_time |-> 70, priority |-> 1]
    @@ ExtendedAgentType["POLICY_ASSESSMENT"] :>
         [checks |-> <<"compliance", "governance", "auditing", "enforcement">>,
          related_resources |-> <<"assignments", "definitions", "scopes">>,
          execution_time |-> 50, priority |-> 1]
    @@ ExtendedAgentType["LOG_ANALYTICS_ASSESSMENT"] :>
         [checks |-> <<"performance", "cost", "querying", "data_ingestion">>,
          related_resources |-> <<"solutions", "saved_searches", "agents">>,
          execution_time |-> 60, priority |-> 1]
    @@ ExtendedAgentType["APP_INSIGHTS_ASSESSMENT"] :>
         [checks |-> <<"performance", "availability", "user_analytics", "alerts">>,
          related_resources |-> <<"metrics", "logs", "dependencies">>,
          execution_time |-> 50, priority |-> 1]
    @@ ExtendedAgentType["MONITOR_ASSESSMENT"] :>
         [checks |-> <<"monitoring", "alerting", "diagnostics", "metrics">>,
          related_resources |-> <<"resources", "logs", "alerts">>,
          execution_time |-> 40, priority |-> 1]
    @@ ExtendedAgentType["AUTOMATION_ASSESSMENT"] :>
         [checks |-> <<"automation", "compliance", "runbooks", "schedules">>,
          related_resources |-> <<"runbooks", "variables", "modules">>,
          execution_time |-> 70, priority |-> 2]
    @@ ExtendedAgentType["UPDATE_MANAGEMENT_ASSESSMENT"] :>
         [checks |-> <<"compliance", "patching", "security", "updates">>,
          related_resources |-> <<"machines", "schedules", "deployments">>,
          execution_time |-> 80, priority |-> 1]
    @@ ExtendedAgentType["COST_MANAGEMENT_ASSESSMENT"] :>
         [checks |-> <<"cost", "budgeting", "forecasting", "optimization">>,
          related_resources |-> <<"scopes", "queries", "views">>,
          execution_time |-> 50, priority |-> 2]
    @@ ExtendedAgentType["MACHINE_LEARNING_ASSESSMENT"] :>
         [checks |-> <<"security", "performance", "cost", "model_training">>,
          related_resources |-> <<"experiments", "models", "endpoints">>,
          execution_time |-> 90, priority |-> 1]
    @@ ExtendedAgentType["COGNITIVE_SERVICES_ASSESSMENT"] :>
         [checks |-> <<"security", "compliance", "cost", "api_usage">>,
          related_resources |-> <<"keys", "endpoints", "models">>,
          execution_time |-> 60, priority |-> 1]
    @@ ExtendedAgentType["BOT_SERVICE_ASSESSMENT"] :>
         [checks |-> <<"performance", "cost", "integration", "channels">>,
          related_resources |-> <<"channels", "dialogs", "endpoints">>,
          execution_time |-> 50, priority |-> 2]
    @@ ExtendedAgentType["COGNITIVE_SEARCH_ASSESSMENT"] :>
         [checks |-> <<"performance", "cost", "indexing", "querying">>,
          related_resources |-> <<"indexes", "skillsets", "data_sources">>,
          execution_time |-> 70, priority |-> 1]
    @@ ExtendedAgentType["FORM_RECOGNIZER_ASSESSMENT"] :>
         [checks |-> <<"security", "accuracy", "cost", "document_processing">>,
          related_resources |-> <<"models", "endpoints", "datasets">>,
          execution_time |-> 60, priority |-> 2]

(***************************************************************************)
(* Python helpers.                                                         *)
(***************************************************************************)
UpperToLower ==
       "A" :> "a" @@ "B" :> "b" @@ "C" :> "c" @@ "D" :> "d" @@ "E" :> "e"
    @@ "F" :> "f" @@ "G" :> "g" @@ "H" :> "h" @@ "I" :> "i" @@ "J" :> "j"
    @@ "K" :> "k" @@ "L" :> "l" @@ "M" :> "m" @@ "N" :> "n" @@ "O" :> "o"
    @@ "P" :> "p" @@ "Q" :> "q" @@ "R" :> "r" @@ "S" :> "s" @@ "T" :> "t"
    @@ "U" :> "u" @@ "V" :> "v" @@ "W" :> "w" @@ "X" :> "x" @@ "Y" :> "y"
    @@ "Z" :> "z"

(* str.lower() *)
Lower(s) ==
    [i \in 1..Len(s) |-> IF s[i] \in DOMAIN UpperToLower THEN UpperToLower[s[i]] ELSE s[i]]

(* str.startswith(prefix) *)
StartsWith(s, prefix) ==
    /\ Len(s) >= Len(prefix)
    /\ SubSeq(s, 1, Len(prefix)) = prefix

(* Truth value of an optional string: None and "" are false. *)
Truthy(v) == v # None /\ v # ""

(* max(times, default=0) over a set of non-negative integers *)
MaxOf(S) == IF S = {} THEN 0 ELSE CHOOSE m \in S : \A x \in S : x <= m

RECURSIVE SumOver(_, _)
(* sum(f[k] for k in S) *)
SumOver(f, S) ==
    IF S = {} THEN 0
    ELSE LET k == CHOOSE x \in S : TRUE IN f[k] + SumOver(f, S \ {k})

(***************************************************************************)
(* The inputs: lists of resource dicts as the discovery query projects     *)
(* them (id, type, kind, properties).                                      *)
(***************************************************************************)
IdName == <<"r1", "r2", "r3", "r4", "r5", "r6">>
Ids == {IdName[i] : i \in 1..MaxResources}
ExternalId == "ext"

TypeVM == "Microsoft.Compute/virtualMachines"
TypeKeyVault == "Microsoft.KeyVault/vaults"
TypeSites == "Microsoft.Web/sites"
TypeServerFarms == "Microsoft.Web/serverFarms"
TypeDisks == "Microsoft.Compute/disks"
TypeCognitive == "Microsoft.CognitiveServices/accounts"
TypeUnmapped == "Contoso.Custom/widget"

ResourceTypes ==
    {TypeVM, TypeKeyVault, TypeSites, TypeServerFarms, TypeDisks, TypeCognitive,
     TypeUnmapped, None}

KindAbsent == [tag |-> "absent", chars |-> <<>>]
KindNull == [tag |-> "null", chars |-> <<>>]
KindStr(chars) == [tag |-> "str", chars |-> chars]
KindApp == KindStr(<<"a", "p", "p">>)
KindFunctionAppLinux ==
    KindStr(<<"F", "u", "n", "c", "t", "i", "o", "n", "A", "p", "p", ",", "l", "i", "n", "u", "x">>)
KindFormRecognizer ==
    KindStr(<<"F", "o", "r", "m", "R", "e", "c", "o", "g", "n", "i", "z", "e", "r">>)
Kinds == {KindAbsent, KindNull, KindApp, KindFunctionAppLinux, KindFormRecognizer}

NoProperties ==
    [has_serverFarmId |-> FALSE, serverFarmId |-> None,
     has_networkProfile |-> FALSE, networkInterfaces |-> <<>>]

(* Fields the code never reads for a resource type are left absent. *)
ResourceShapes ==
    {[type |-> t, kind |-> KindAbsent, properties |-> NoProperties] :
        t \in ResourceTypes}
    \cup
    {[type |-> t, kind |-> k, properties |-> NoProperties] :
        t \in {TypeSites, TypeCognitive}, k \in Kinds}
    \cup
    {[type |-> TypeSites, kind |-> k,
      properties |-> [NoProperties EXCEPT !.has_serverFarmId = TRUE, !.serverFarmId = v]] :
        k \in {KindAbsent, KindApp, KindFunctionAppLinux}, v \in Ids \cup {ExternalId, ""}}
    \cup
    {[type |-> TypeVM, kind |-> KindAbsent,
      properties |-> [NoProperties EXCEPT !.has_networkProfile = TRUE, !.networkInterfaces = n]] :
        n \in {<<>>} \cup {<<v>> : v \in Ids \cup {ExternalId, None}}}

(* The list whose i-th resource has the i-th id: ids are distinct. *)
WithIds(shapes) ==
    [i \in 1..Len(shapes) |->
        [id |-> IdName[i], type |-> shapes[i].type, kind |-> shapes[i].kind,
         properties |-> shapes[i].properties]]

(***************************************************************************)
(* ResourceDependencyGraph: resources is a dict id -> node.                *)
(***************************************************************************)
EmptyGraph == [id \in {} |-> None]

add_resource(graph, resource_id, resource_type) ==
    [id \in DOMAIN graph \cup {resource_id} |->
        IF id = resource_id
        THEN [type |-> resource_type, depends_on |-> {}, depended_by |-> {}]
        ELSE graph[id]]

(* Faulty variant of add_dependency: an id that is not a node is not recorded. *)
add_dependency_KnownOnly(graph, resource_id, depends_on) ==
    IF resource_id \in DOMAIN graph /\ Truthy(depends_on) /\ depends_on \in DOMAIN graph
    THEN [graph EXCEPT ![resource_id].depends_on = @ \cup {depends_on},
                       ![depends_on].depended_by = @ \cup {resource_id}]
    ELSE graph

add_dependency(graph, resource_id, depends_on) ==
    IF resource_id \in DOMAIN graph /\ Truthy(depends_on)
    THEN LET g1 == [graph EXCEPT ![resource_id].depends_on = @ \cup {depends_on}]
         IN IF depends_on \in DOMAIN g1
            THEN [g1 EXCEPT ![depends_on].depended_by = @ \cup {resource_id}]
            ELSE g1
    ELSE graph

get_dependencies(graph, resource_id) ==
    IF resource_id \in DOMAIN graph THEN graph[resource_id].depends_on ELSE {}

RECURSIVE AddNicDependencies(_, _, _, _)
(* for nic in networkInterfaces: graph.add_dependency(resource_id, nic.get("id")) *)
AddNicDependencies(graph, resource_id, nics, i) ==
    IF i > Len(nics) THEN graph
    ELSE AddNicDependencies(add_dependency(graph, resource_id, nics[i]), resource_id, nics, i + 1)

(* One iteration of the loop of build_resource_dependency_graph. *)
GraphStep(graph, resource) ==
    LET g0 == add_resource(graph, resource.id, resource.type)
        properties == resource.properties
    IN IF resource.type = TypeSites
       THEN IF properties.has_serverFarmId
            THEN add_dependency(g0, resource.id, properties.serverFarmId)
            ELSE g0
       ELSE IF resource.type = TypeVM
            THEN IF properties.has_networkProfile
                 THEN AddNicDependencies(g0, resource.id, properties.networkInterfaces, 1)
                 ELSE g0
            ELSE g0

RECURSIVE BuildGraphFrom(_, _, _)
BuildGraphFrom(graph, resources, i) ==
    IF i > Len(resources) THEN graph
    ELSE BuildGraphFrom(GraphStep(graph, resources[i]), resources, i + 1)

build_resource_dependency_graph(resources) == BuildGraphFrom(EmptyGraph, resources, 1)

(***************************************************************************)
(* IntelligentAgentSelector.                                               *)
(***************************************************************************)
(* resource.get("kind", "") *)
KindOrEmpty(resource) == resource.kind.chars

functionapp == <<"f", "u", "n", "c", "t", "i", "o", "n", "a", "p", "p">>
formrecognizer == <<"f", "o", "r", "m", "r", "e", "c", "o", "g", "n", "i", "z", "e", "r">>

_is_function_app(resource) == StartsWith(Lower(KindOrEmpty(resource)), functionapp)

_is_form_recognizer(resource) == Lower(KindOrEmpty(resource)) = formrecognizer

(* None has no lower(): the predicates raise AttributeError on "kind": null. *)
KindRaises(resource) == resource.kind.tag = "null"

(* _get_agent_for_special_cases raises exactly when a predicate it evaluates does. *)
SpecialCasesRaise(resource) ==
    /\ resource.type \in {TypeSites, TypeCognitive}
    /\ KindRaises(resource)

(* Faulty variant of _get_agent_for_special_cases: no special case is seen. *)
_get_agent_for_special_cases_None(resource) == None

_get_agent_for_special_cases(resource) ==
    IF resource.type = TypeSites /\ _is_function_app(resource)
    THEN ExtendedAgentType["FUNCTIONS_ASSESSMENT"]
    ELSE IF resource.type = TypeCognitive /\ _is_form_recognizer(resource)
         THEN ExtendedAgentType["FORM_RECOGNIZER_ASSESSMENT"]
         ELSE None

(* self.agent_mapping.get(resource_type) *)
MappingGet(resource_type) ==
    IF resource_type \in DOMAIN agent_mapping THEN agent_mapping[resource_type] ELSE None

(* Faulty variant of UpdateEstimatedTime: the time of each resource is added up. *)
UpdateEstimatedTime_Sum(current, execution_time) == current + execution_time

(* max(current, execution_time), lines 446-449 *)
UpdateEstimatedTime(current, execution_time) ==
    IF current >= execution_time THEN current ELSE execution_time

(* Lines 435-453: the branch of a resource that has an agent type. *)
AssignToAgent(agent_assignments, agent_type, resource, graph) ==
    LET created ==
            IF agent_type \in DOMAIN agent_assignments
            THEN agent_assignments
            ELSE [a \in DOMAIN agent_assignments \cup {agent_type} |->
                    IF a = agent_type
                    THEN [resources |-> <<>>,
                          priority |-> agent_capabilities[agent_type].priority,
                          estimated_time |-> 0,
                          dependencies |-> {},
                          checks |-> agent_capabilities[agent_type].checks]
                    ELSE agent_assignments[a]]
    IN [created EXCEPT
          ![agent_type].resources = Append(@, resource.id),
          ![agent_type].estimated_time =
              UpdateEstimatedTime(@, agent_capabilities[agent_type].execution_time),
          ![agent_type].dependencies = @ \cup get_dependencies(graph, resource.id)]

(* ExtendedAgentType.GENERIC_RESOURCE_ASSESSMENT: AttributeError unless the
   enum has the member. *)
GenericTypeRaises == "GENERIC_RESOURCE_ASSESSMENT" \notin DOMAIN ExtendedAgentType

(* The body of assign_to_generic_agent after generic_type is bound. *)
assign_to_generic_agent(resource, agent_assignments) ==
    LET generic_type == ExtendedAgentType["GENERIC_RESOURCE_ASSESSMENT"]
        created ==
            IF generic_type \in DOMAIN agent_assignments
            THEN agent_assignments
            ELSE [a \in DOMAIN agent_assignments \cup {generic_type} |->
                    IF a = generic_type
                    THEN [resources |-> <<>>,
                          priority |-> 3,
                          estimated_time |-> 30,
                          dependencies |-> {},
                          checks |-> <<"basic_security", "basic_cost", "basic_compliance">>]
                    ELSE agent_assignments[a]]
    IN [created EXCEPT ![generic_type].resources = Append(@, resource.id)]

NoAssignments == [a \in {} |-> None]

(* Faulty variant of GraphAfterAssign: the assignment of a worker type takes
   the depends_on set of its first resource as its dependencies set, so that
   what later resources add to the one is added to the other. *)
GraphAfterAssign_SharedSet(graph, agent_assignments, agent_type, resource) ==
    IF agent_type \in DOMAIN agent_assignments
    THEN [graph EXCEPT ![agent_assignments[agent_type].resources[1]].depends_on =
                          @ \cup get_dependencies(graph, resource.id)]
    ELSE graph

(* The graph after lines 452-453: get_dependencies hands out the graph's own
   set, and update(deps) copies its elements into the dependencies set of the
   assignment, which is a set of its own (line 439). *)
GraphAfterAssign(graph, agent_assignments, agent_type, resource) == graph

(* One iteration of the loop of select_agents_for_resources; acc.raised is the
   exception that ended the loop, or None, and acc.graph the resource_graph. *)
SelectStep(acc, resource) ==
    IF acc.raised # None THEN acc
    ELSE IF SpecialCasesRaise(resource)
    THEN [acc EXCEPT !.raised = "AttributeError"]
    ELSE LET special == _get_agent_for_special_cases(resource)
             agent_type == IF special = None THEN MappingGet(resource.type) ELSE special
         IN IF agent_type # None
            THEN [acc EXCEPT
                    !.agent_assignments = AssignToAgent(@, agent_type, resource, acc.graph),
                    !.graph = GraphAfterAssign(@, acc.agent_assignments, agent_type,
                                               resource)]
            ELSE IF GenericTypeRaises
                 THEN [acc EXCEPT !.raised = "AttributeError"]
                 ELSE [acc EXCEPT
                         !.agent_assignments = assign_to_generic_agent(resource, @)]

RECURSIVE SelectLoop(_, _, _)
SelectLoop(acc, resources, i) ==
    IF i > Len(resources) THEN acc
    ELSE SelectLoop(SelectStep(acc, resources[i]), resources, i + 1)

(* The four buckets of optimize_execution_plan, lines 545-555. *)
priority_1_no_deps(assignments) ==
    {a \in DOMAIN assignments :
        assignments[a].priority = 1 /\ assignments[a].dependencies = {}}

(* Faulty variant of priority_1_with_deps: the test of the dependencies is lost. *)
priority_1_with_deps_NoTest(assignments) ==
    {a \in DOMAIN assignments : assignments[a].priority = 1}

priority_1_with_deps(assignments) ==
    {a \in DOMAIN assignments :
        assignments[a].priority = 1 /\ assignments[a].dependencies # {}}

(* Faulty variant of priority_2_no_deps: only priority 2 is taken. *)
priority_2_no_deps_OnlyTwo(assignments) ==
    {a \in DOMAIN assignments :
        assignments[a].priority = 2 /\ assignments[a].dependencies = {}}

(* Faulty variant of priority_2_no_deps: the test of the dependencies is lost. *)
priority_2_no_deps_NoTest(assignments) ==
    {a \in DOMAIN assignments : assignments[a].priority # 1}

(* The `else` of line 551 takes every priority other than 1. *)
priority_2_no_deps(assignments) ==
    {a \in DOMAIN assignments :
        assignments[a].priority # 1 /\ assignments[a].dependencies = {}}

priority_2_with_deps(assignments) ==
    {a \in DOMAIN assignments :
        assignments[a].priority # 1 /\ assignments[a].dependencies # {}}

(* Faulty variant of WaveTime: the times of a wave are added up. *)
WaveTime_Sum(assignments, bucket) ==
    SumOver([a \in bucket |-> assignments[a].estimated_time], bucket)

(* Faulty variant of WaveTime: the least time of a wave is taken. *)
WaveTime_Min(assignments, bucket) ==
    LET times == {assignments[a].estimated_time : a \in bucket}
    IN IF times = {} THEN 0 ELSE CHOOSE m \in times : \A x \in times : m <= x

(* max([d["estimated_time"] for d in bucket.values()], default=0) *)
WaveTime(assignments, bucket) == MaxOf({assignments[a].estimated_time : a \in bucket})

(* Faulty variant of calculate_parallelization_efficiency: parallel/total is returned
   without being subtracted from 1. *)
calculate_parallelization_efficiency_Ratio(assignments) ==
    LET total_sequential_time ==
            SumOver([a \in DOMAIN assignments |-> assignments[a].estimated_time],
                    DOMAIN assignments)
        p1_times == {assignments[a].estimated_time :
                        a \in {x \in DOMAIN assignments : assignments[x].priority = 1}}
        p2_times == {assignments[a].estimated_time :
                        a \in {x \in DOMAIN assignments : assignments[x].priority = 2}}
        parallel_time == MaxOf(p1_times) + MaxOf(p2_times)
    IN IF total_sequential_time = 0
       THEN [num |-> 1, den |-> 1]
       ELSE [num |-> parallel_time, den |-> total_sequential_time]

(* Lines 576-590.  The float 1 - parallel/total is kept as the exact ratio
   (total - parallel) / total; 1.0 is 1/1. *)
calculate_parallelization_efficiency(assignments) ==
    LET total_sequential_time ==
            SumOver([a \in DOMAIN assignments |-> assignments[a].estimated_time],
                    DOMAIN assignments)
        p1_times == {assignments[a].estimated_time :
                        a \in {x \in DOMAIN assignments : assignments[x].priority = 1}}
        p2_times == {assignments[a].estimated_time :
                        a \in {x \in DOMAIN assignments : assignments[x].priority = 2}}
        parallel_time == MaxOf(p1_times) + MaxOf(p2_times)
    IN IF total_sequential_time = 0
       THEN [num |-> 1, den |-> 1]
       ELSE [num |-> total_sequential_time - parallel_time, den |-> total_sequential_time]

Wave(n, assignments, bucket) ==
    [wave |-> n,
     agents |-> [a \in bucket |-> assignments[a]],
     estimated_time |-> WaveTime(assignments, bucket)]

optimize_execution_plan(assignments) ==
    LET w1 == Wave(1, assignments, priority_1_no_deps(assignments))
        w2 == Wave(2, assignments, priority_1_with_deps(assignments))
        w3 == Wave(3, assignments, priority_2_no_deps(assignments))
        w4 == Wave(4, assignments, priority_2_with_deps(assignments))
    IN [execution_waves |-> <<w1, w2, w3, w4>>,
        total_agents |-> Cardinality(DOMAIN assignments),
        total_resources |->
            SumOver([a \in DOMAIN assignments |-> Len(assignments[a].resources)],
                    DOMAIN assignments),
        estimated_total_time |->
            w1.estimated_time + w2.estimated_time + w3.estimated_time + w4.estimated_time,
        parallelization_efficiency |-> calculate_parallelization_efficiency(assignments)]

(***************************************************************************)
(* AssessmentPlan.                                                         *)
(***************************************************************************)
(* AssessmentPlan.estimated_time of the correlation step, lines 85 and 90. *)
CorrelationTime == 60

(* Faulty variant of _get_all_previous_agents: only the first wave is read. *)
_get_all_previous_agents_FirstWave(execution_waves) ==
    IF execution_waves = <<>> THEN {} ELSE DOMAIN execution_waves[1].agents

_get_all_previous_agents(execution_waves) ==
    UNION {DOMAIN execution_waves[i].agents : i \in 1..Len(execution_waves)}

(* Faulty variant of CorrelationStep: the wave takes the number of the last one. *)
CorrelationStep_SameNumber(execution_waves) ==
    [wave |-> Len(execution_waves),
     agents |-> [k \in {"CrossResourceAnalysis"} |->
                    [agent_type |-> "correlation_analysis",
                     resources |-> <<"all">>,
                     priority |-> 1,
                     estimated_time |-> CorrelationTime,
                     dependencies |-> _get_all_previous_agents(execution_waves)]],
     estimated_time |-> CorrelationTime,
     description |-> "Analyze findings across all resources for cross-resource issues"]

CorrelationStep(execution_waves) ==
    [wave |-> Len(execution_waves) + 1,
     agents |-> [k \in {"CrossResourceAnalysis"} |->
                    [agent_type |-> "correlation_analysis",
                     resources |-> <<"all">>,
                     priority |-> 1,
                     estimated_time |-> CorrelationTime,
                     dependencies |-> _get_all_previous_agents(execution_waves)]],
     estimated_time |-> CorrelationTime,
     description |-> "Analyze findings across all resources for cross-resource issues"]

add_correlation_step(p) ==
    [p EXCEPT !.execution_waves = Append(@, CorrelationStep(@)),
              !.correlation_step_added = TRUE]

create_parallel_execution_plan(ep) ==
    [execution_waves |-> ep.execution_waves,
     total_agents |-> ep.total_agents,
     total_resources |-> ep.total_resources,
     estimated_total_time |-> ep.estimated_total_time,
     correlation_step_added |-> FALSE]

(***************************************************************************)
(* kernel_agents/cross_agent_intelligence.py: CrossAgentIntelligence.      *)
(***************************************************************************)
(* The keys of the resource_relationships literal, in the order the dict keeps
   them (lines 8-487). *)
resource_relationships_keys ==
    <<"Microsoft.Compute/virtualMachines",
      "Microsoft.Compute/virtualMachineScaleSets", "Microsoft.Web/sites",
      "Microsoft.Web/serverFarms",
      "Microsoft.ContainerService/managedClusters",
      "Microsoft.ContainerRegistry/registries",
      "Microsoft.ContainerInstance/containerGroups",
      "Microsoft.Storage/storageAccounts", "Microsoft.Compute/disks",
      "Microsoft.Network/virtualNetworks",
      "Microsoft.Network/networkSecurityGroups",
      "Microsoft.Network/loadBalancers",
      "Microsoft.Network/applicationGateways",
      "Microsoft.Network/azureFirewalls", "Microsoft.Sql/servers",
      "Microsoft.DocumentDB/databaseAccounts", "Microsoft.Cache/Redis",
      "Microsoft.DBforPostgreSQL/servers", "Microsoft.DBforMySQL/servers",
      "Microsoft.DataFactory/factories", "Microsoft.Synapse/workspaces",
      "Microsoft.Databricks/workspaces", "Microsoft.EventHub/namespaces",
      "Microsoft.StreamAnalytics/streamingjobs",
      "Microsoft.Devices/IotHubs", "Microsoft.KeyVault/vaults",
      "Microsoft.ManagedIdentity/userAssignedIdentities",
      "Microsoft.AAD/domainServices",
      "Microsoft.OperationalInsights/workspaces",
      "Microsoft.Insights/components", "Microsoft.Logic/workflows",
      "Microsoft.ServiceBus/namespaces", "Microsoft.ApiManagement/service",
      "Microsoft.EventGrid/topics",
      "Microsoft.MachineLearningServices/workspaces",
      "Microsoft.CognitiveServices/accounts",
      "Microsoft.BotService/botServices", "Microsoft.Search/searchServices">>

(* The dict literal assigned to self.resource_relationships, lines 7-488. *)
resource_relationships_literal ==
    ("Microsoft.Compute/virtualMachines" :>
        [depends_on |-> <<"Microsoft.Network/networkInterfaces", "Microsoft.Compute/disks",
                        "Microsoft.Network/virtualNetworks",
                        "Microsoft.Network/networkSecurityGroups",
                        "Microsoft.Storage/storageAccounts", "Microsoft.KeyVault/vaults">>,
         impacts |-> <<"Microsoft.Network/loadBalancers",
                     "Microsoft.Network/applicationGateways",
                     "Microsoft.Compute/availabilitySets",
                     "Microsoft.RecoveryServices/vaults">>])
    @@ ("Microsoft.Compute/virtualMachineScaleSets" :>
        [depends_on |-> <<"Microsoft.Network/virtualNetworks",
                        "Microsoft.Network/loadBalancers", "Microsoft.Compute/images",
                        "Microsoft.Storage/storageAccounts">>,
         impacts |-> <<"Microsoft.Insights/autoscaleSettings",
                     "Microsoft.Network/applicationGateways">>])
    @@ ("Microsoft.Web/sites" :>
        [depends_on |-> <<"Microsoft.Web/serverfarms", "Microsoft.Sql/servers",
                        "Microsoft.Storage/storageAccounts",
                        "Microsoft.DocumentDB/databaseAccounts", "Microsoft.Cache/Redis",
                        "Microsoft.KeyVault/vaults", "Microsoft.ServiceBus/namespaces",
                        "Microsoft.EventHub/namespaces">>,
         impacts |-> <<"Microsoft.Cdn/profiles", "Microsoft.Network/applicationGateways",
                     "Microsoft.Network/frontDoors", "Microsoft.ApiManagement/service",
                     "Microsoft.Insights/components">>])
    @@ ("Microsoft.Web/serverFarms" :>
        [depends_on |-> <<"Microsoft.Network/virtualNetworks">>,
         impacts |-> <<"Microsoft.Web/sites", "Microsoft.Web/sites/slots">>])
    @@ ("Microsoft.ContainerService/managedClusters" :>
        [depends_on |-> <<"Microsoft.Network/virtualNetworks",
                        "Microsoft.ContainerRegistry/registries",
                        "Microsoft.KeyVault/vaults",
                        "Microsoft.ManagedIdentity/userAssignedIdentities",
                        "Microsoft.OperationalInsights/workspaces",
                        "Microsoft.Storage/storageAccounts">>,
         impacts |-> <<"Microsoft.Network/loadBalancers",
                     "Microsoft.Network/publicIPAddresses",
                     "Microsoft.Network/applicationGateways", "Microsoft.Monitor/accounts">>])
    @@ ("Microsoft.ContainerRegistry/registries" :>
        [depends_on |-> <<"Microsoft.Storage/storageAccounts", "Microsoft.KeyVault/vaults">>,
         impacts |-> <<"Microsoft.ContainerService/managedClusters", "Microsoft.Web/sites",
                     "Microsoft.ContainerInstance/containerGroups">>])
    @@ ("Microsoft.ContainerInstance/containerGroups" :>
        [depends_on |-> <<"Microsoft.ContainerRegistry/registries",
                        "Microsoft.Network/virtualNetworks",
                        "Microsoft.Storage/storageAccounts">>,
         impacts |-> <<>>])
    @@ ("Microsoft.Storage/storageAccounts" :>
        [depends_on |-> <<"Microsoft.Network/virtualNetworks", "Microsoft.KeyVault/vaults">>,
         impacts |-> <<"Microsoft.Compute/virtualMachines", "Microsoft.Web/sites",
                     "Microsoft.Sql/servers", "Microsoft.DataFactory/factories",
                     "Microsoft.StreamAnalytics/streamingjobs",
                     "Microsoft.Media/mediaservices">>])
    @@ ("Microsoft.Compute/disks" :>
        [depends_on |-> <<"Microsoft.KeyVault/vaults">>,
         impacts |-> <<"Microsoft.Compute/virtualMachines", "Microsoft.Compute/snapshots">>])
    @@ ("Microsoft.Network/virtualNetworks" :>
        [depends_on |-> <<"Microsoft.Network/networkSecurityGroups",
                        "Microsoft.Network/routeTables">>,
         impacts |-> <<"Microsoft.Compute/virtualMachines", "Microsoft.Web/sites",
                     "Microsoft.ContainerService/managedClusters",
                     "Microsoft.Sql/servers", "Microsoft.Network/privateEndpoints",
                     "Microsoft.Network/applicationGateways",
                     "Microsoft.Network/loadBalancers", "Microsoft.Network/vpnGateways">>])
    @@ ("Microsoft.Network/networkSecurityGroups" :>
        [depends_on |-> <<>>,
         impacts |-> <<"Microsoft.Network/networkInterfaces",
                     "Microsoft.Network/virtualNetworks/subnets",
                     "Microsoft.Compute/virtualMachines">>])
    @@ ("Microsoft.Network/loadBalancers" :>
        [depends_on |-> <<"Microsoft.Network/virtualNetworks",
                        "Microsoft.Network/publicIPAddresses">>,
         impacts |-> <<"Microsoft.Compute/virtualMachines",
                     "Microsoft.Compute/virtualMachineScaleSets",
                     "Microsoft.ContainerService/managedClusters">>])
    @@ ("Microsoft.Network/applicationGateways" :>
        [depends_on |-> <<"Microsoft.Network/virtualNetworks",
                        "Microsoft.Network/publicIPAddresses", "Microsoft.KeyVault/vaults",
                        "Microsoft.ManagedIdentity/userAssignedIdentities">>,
         impacts |-> <<"Microsoft.Web/sites", "Microsoft.Compute/virtualMachines",
                     "Microsoft.ContainerService/managedClusters">>])
    @@ ("Microsoft.Network/azureFirewalls" :>
        [depends_on |-> <<"Microsoft.Network/virtualNetworks",
                        "Microsoft.Network/publicIPAddresses",
                        "Microsoft.Network/firewallPolicies">>,
         impacts |-> <<"Microsoft.Network/virtualNetworks",
                     "Microsoft.Compute/virtualMachines", "Microsoft.Web/sites">>])
    @@ ("Microsoft.Sql/servers" :>
        [depends_on |-> <<"Microsoft.Network/virtualNetworks",
                        "Microsoft.Storage/storageAccounts", "Microsoft.KeyVault/vaults">>,
         impacts |-> <<"Microsoft.Web/sites", "Microsoft.DataFactory/factories",
                     "Microsoft.Synapse/workspaces">>])
    @@ ("Microsoft.DocumentDB/databaseAccounts" :>
        [depends_on |-> <<"Microsoft.Network/virtualNetworks", "Microsoft.KeyVault/vaults">>,
         impacts |-> <<"Microsoft.Web/sites", "Microsoft.Logic/workflows",
                     "Microsoft.DataFactory/factories">>])
    @@ ("Microsoft.Cache/Redis" :>
        [depends_on |-> <<"Microsoft.Network/virtualNetworks">>,
         impacts |-> <<"Microsoft.Web/sites", "Microsoft.Compute/virtualMachines">>])
    @@ ("Microsoft.DBforPostgreSQL/servers" :>
        [depends_on |-> <<"Microsoft.Network/virtualNetworks",
                        "Microsoft.Storage/storageAccounts">>,
         impacts |-> <<"Microsoft.Web/sites", "Microsoft.ContainerService/managedClusters">>])
    @@ ("Microsoft.DBforMySQL/servers" :>
        [depends_on |-> <<"Microsoft.Network/virtualNetworks",
                        "Microsoft.Storage/storageAccounts">>,
         impacts |-> <<"Microsoft.Web/sites", "Microsoft.ContainerService/managedClusters">>])
    @@ ("Microsoft.DataFactory/factories" :>
        [depends_on |-> <<"Microsoft.Storage/storageAccounts", "Microsoft.Sql/servers",
                        "Microsoft.DocumentDB/databaseAccounts", "Microsoft.KeyVault/vaults",
                        "Microsoft.Synapse/workspaces">>,
         impacts |-> <<"Microsoft.Synapse/workspaces",
                     "Microsoft.MachineLearningServices/workspaces">>])
    @@ ("Microsoft.Synapse/workspaces" :>
        [depends_on |-> <<"Microsoft.Storage/storageAccounts", "Microsoft.KeyVault/vaults",
                        "Microsoft.Network/virtualNetworks">>,
         impacts |-> <<"Microsoft.DataFactory/factories",
                     "Microsoft.MachineLearningServices/workspaces">>])
    @@ ("Microsoft.Databricks/workspaces" :>
        [depends_on |-> <<"Microsoft.Storage/storageAccounts",
                        "Microsoft.Network/virtualNetworks", "Microsoft.KeyVault/vaults">>,
         impacts |-> <<"Microsoft.DataFactory/factories",
                     "Microsoft.MachineLearningServices/workspaces">>])
    @@ ("Microsoft.EventHub/namespaces" :>
        [depends_on |-> <<"Microsoft.Network/virtualNetworks",
                        "Microsoft.Storage/storageAccounts">>,
         impacts |-> <<"Microsoft.StreamAnalytics/streamingjobs", "Microsoft.Web/sites",
                     "Microsoft.Logic/workflows", "Microsoft.DataFactory/factories">>])
    @@ ("Microsoft.StreamAnalytics/streamingjobs" :>
        [depends_on |-> <<"Microsoft.EventHub/namespaces", "Microsoft.Devices/IotHubs",
                        "Microsoft.Storage/storageAccounts">>,
         impacts |-> <<"Microsoft.Sql/servers", "Microsoft.DocumentDB/databaseAccounts",
                     "Microsoft.PowerBI/workspaceCollections">>])
    @@ ("Microsoft.Devices/IotHubs" :>
        [depends_on |-> <<"Microsoft.Storage/storageAccounts", "Microsoft.EventHub/namespaces">>,
         impacts |-> <<"Microsoft.StreamAnalytics/streamingjobs",
                     "Microsoft.Logic/workflows",
                     "Microsoft.TimeSeriesInsights/environments">>])
    @@ ("Microsoft.KeyVault/vaults" :>
        [depends_on |-> <<"Microsoft.Network/virtualNetworks",
                        "Microsoft.ManagedIdentity/userAssignedIdentities">>,
         impacts |-> <<"Microsoft.Compute/virtualMachines", "Microsoft.Web/sites",
                     "Microsoft.Sql/servers", "Microsoft.Storage/storageAccounts",
                     "Microsoft.ContainerService/managedClusters",
                     "Microsoft.DataFactory/factories">>])
    @@ ("Microsoft.ManagedIdentity/userAssignedIdentities" :>
        [depends_on |-> <<>>,
         impacts |-> <<"Microsoft.Compute/virtualMachines", "Microsoft.Web/sites",
                     "Microsoft.ContainerService/managedClusters",
                     "Microsoft.DataFactory/factories", "Microsoft.Logic/workflows">>])
    @@ ("Microsoft.AAD/domainServices" :>
        [depends_on |-> <<"Microsoft.Network/virtualNetworks">>,
         impacts |-> <<"Microsoft.Compute/virtualMachines",
                     "Microsoft.Storage/storageAccounts">>])
    @@ ("Microsoft.OperationalInsights/workspaces" :>
        [depends_on |-> <<>>,
         impacts |-> <<"Microsoft.Compute/virtualMachines",
                     "Microsoft.ContainerService/managedClusters", "Microsoft.Web/sites",
                     "Microsoft.Sql/servers", "Microsoft.Network/applicationGateways">>])
    @@ ("Microsoft.Insights/components" :>
        [depends_on |-> <<"Microsoft.OperationalInsights/workspaces">>,
         impacts |-> <<"Microsoft.Web/sites", "Microsoft.ApiManagement/service">>])
    @@ ("Microsoft.Logic/workflows" :>
        [depends_on |-> <<"Microsoft.Web/connections", "Microsoft.Storage/storageAccounts",
                        "Microsoft.ServiceBus/namespaces", "Microsoft.EventGrid/topics">>,
         impacts |-> <<"Microsoft.DataFactory/factories", "Microsoft.Web/sites">>])
    @@ ("Microsoft.ServiceBus/namespaces" :>
        [depends_on |-> <<"Microsoft.Network/virtualNetworks">>,
         impacts |-> <<"Microsoft.Web/sites", "Microsoft.Logic/workflows",
                     "Microsoft.EventGrid/topics">>])
    @@ ("Microsoft.ApiManagement/service" :>
        [depends_on |-> <<"Microsoft.Network/virtualNetworks", "Microsoft.KeyVault/vaults",
                        "Microsoft.Insights/components">>,
         impacts |-> <<"Microsoft.Web/sites", "Microsoft.Logic/workflows">>])
    @@ ("Microsoft.EventGrid/topics" :>
        [depends_on |-> <<>>,
         impacts |-> <<"Microsoft.Logic/workflows", "Microsoft.Web/sites",
                     "Microsoft.EventHub/namespaces", "Microsoft.ServiceBus/namespaces">>])
    @@ ("Microsoft.MachineLearningServices/workspaces" :>
        [depends_on |-> <<"Microsoft.Storage/storageAccounts", "Microsoft.KeyVault/vaults",
                        "Microsoft.ContainerRegistry/registries",
                        "Microsoft.Insights/components">>,
         impacts |-> <<"Microsoft.ContainerService/managedClusters",
                     "Microsoft.Synapse/workspaces">>])
    @@ ("Microsoft.CognitiveServices/accounts" :>
        [depends_on |-> <<"Microsoft.Network/virtualNetworks", "Microsoft.KeyVault/vaults">>,
         impacts |-> <<"Microsoft.Web/sites", "Microsoft.Logic/workflows",
                     "Microsoft.BotService/botServices">>])
    @@ ("Microsoft.BotService/botServices" :>
        [depends_on |-> <<"Microsoft.Web/sites", "Microsoft.CognitiveServices/accounts">>,
         impacts |-> <<"Microsoft.Web/sites/slots">>])
    @@ ("Microsoft.Search/searchServices" :>
        [depends_on |-> <<"Microsoft.Storage/storageAccounts",
                        "Microsoft.CognitiveServices/accounts">>,
         impacts |-> <<"Microsoft.Web/sites", "Microsoft.DataFactory/factories">>])

(* The list literal assigned to self.correlation_rules, lines 512-843.  A rule
   keeps its name, conditions and severity; its recommendation text, effort and
   score are payload no method reads.  No two rules share a name. *)
correlation_rules_literal ==
    <<
      [name |-> "insecure_database_connection",
       conditions |-> <<<<"app_service", "has_connection_string_in_config">>,
                        <<"sql_database", "allows_public_access">>>>,
       severity |-> "critical"],
      [name |-> "exposed_sensitive_data_path",
       conditions |-> <<<<"storage_account", "allows_public_blob_access">>,
                        <<"app_service", "writes_sensitive_data_to_storage">>,
                        <<"storage_account", "no_encryption_at_rest">>>>,
       severity |-> "critical"],
      [name |-> "vulnerable_container_supply_chain",
       conditions |-> <<<<"aks_cluster", "pull_secrets_not_using_managed_identity">>,
                        <<"container_registry", "no_vulnerability_scanning">>,
                        <<"container_registry", "allows_anonymous_pull">>>>,
       severity |-> "critical"],
      [name |-> "weak_encryption_chain",
       conditions |-> <<<<"key_vault", "using_software_protected_keys">>,
                        <<"storage_account", "customer_managed_keys_from_same_vault">>,
                        <<"sql_database", "tde_using_same_vault">>>>,
       severity |-> "high"],
      [name |-> "exposed_management_plane",
       conditions |-> <<<<"vm", "rdp_ssh_open_to_internet">>,
                        <<"vm", "no_just_in_time_access">>,
                        <<"nsg", "no_ddos_protection">>>>,
       severity |-> "critical"],
      [name |-> "insecure_api_gateway",
       conditions |-> <<<<"api_management", "no_client_certificate_required">>,
                        <<"api_management", "backend_using_http">>,
                        <<"app_service", "api_backend_allows_anonymous">>>>,
       severity |-> "high"],
      [name |-> "database_performance_bottleneck",
       conditions |-> <<<<"sql_database", "high_dtu_usage">>,
                        <<"app_service", "connection_pool_exhaustion">>,
                        <<"app_service", "no_retry_logic">>>>,
       severity |-> "high"],
      [name |-> "unoptimized_data_pipeline",
       conditions |-> <<<<"data_factory", "no_parallel_processing">>,
                        <<"storage_account", "using_standard_tier">>,
                        <<"synapse", "no_data_partitioning">>>>,
       severity |-> "medium"],
      [name |-> "container_resource_starvation",
       conditions |-> <<<<"aks_cluster", "no_resource_limits_set">>,
                        <<"aks_cluster", "no_horizontal_pod_autoscaling">>,
                        <<"container_registry", "large_image_sizes">>>>,
       severity |-> "high"],
      [name |-> "inefficient_content_delivery",
       conditions |-> <<<<"storage_account", "serving_static_content">>,
                        <<"app_service", "no_cdn_configured">>,
                        <<"storage_account", "not_using_hot_access_tier">>>>,
       severity |-> "medium"],
      [name |-> "redundant_backup_costs",
       conditions |-> <<<<"vm", "azure_backup_enabled">>,
                        <<"vm", "disk_snapshots_enabled">>,
                        <<"storage_account", "storing_vm_backups">>>>,
       severity |-> "medium"],
      [name |-> "oversized_infrastructure_chain",
       conditions |-> <<<<"vm", "cpu_usage_under_20_percent">>,
                        <<"sql_database", "dtu_usage_under_20_percent">>,
                        <<"app_service_plan", "usage_under_30_percent">>>>,
       severity |-> "medium"],
      [name |-> "inefficient_data_transfer_costs",
       conditions |-> <<<<"storage_account", "cross_region_replication">>,
                        <<"app_service", "in_different_region">>,
                        <<"sql_database", "in_different_region">>>>,
       severity |-> "medium"],
      [name |-> "unused_premium_features",
       conditions |-> <<<<"sql_database", "using_business_critical_tier">>,
                        <<"sql_database", "no_read_replicas_configured">>,
                        <<"sql_database", "no_zone_redundancy_needed">>>>,
       severity |-> "low"],
      [name |-> "single_point_of_failure",
       conditions |-> <<<<"load_balancer", "single_backend_pool_member">>,
                        <<"vm", "no_availability_set_or_zone">>,
                        <<"app_service", "single_instance">>>>,
       severity |-> "high"],
      [name |-> "incomplete_disaster_recovery",
       conditions |-> <<<<"sql_database", "no_geo_replication">>,
                        <<"storage_account", "no_geo_redundancy">>,
                        <<"key_vault", "no_backup_configured">>>>,
       severity |-> "high"],
      [name |-> "cascading_failure_risk",
       conditions |-> <<<<"app_service", "no_health_probes">>,
                        <<"sql_database", "no_connection_retry">>,
                        <<"redis_cache", "no_cluster_configuration">>>>,
       severity |-> "high"],
      [name |-> "monitoring_blind_spots",
       conditions |-> <<<<"vm", "no_diagnostics_enabled">>,
                        <<"app_service", "no_application_insights">>,
                        <<"sql_database", "no_query_performance_insights">>>>,
       severity |-> "medium"],
      [name |-> "incomplete_automation_pipeline",
       conditions |-> <<<<"devops_pipeline", "manual_approval_steps">>,
                        <<"key_vault", "manual_secret_rotation">>,
                        <<"vm", "manual_patching_enabled">>>>,
       severity |-> "medium"],
      [name |-> "compliance_gap_chain",
       conditions |-> <<<<"storage_account", "no_immutable_storage">>,
                        <<"key_vault", "no_purge_protection">>,
                        <<"log_analytics", "retention_under_90_days">>>>,
       severity |-> "high"],
      [name |-> "inefficient_data_ingestion",
       conditions |-> <<<<"event_hub", "single_partition">>,
                        <<"stream_analytics", "no_parallel_processing">>,
                        <<"cosmos_db", "low_throughput_provisioned">>>>,
       severity |-> "medium"],
      [name |-> "unprotected_ml_pipeline",
       conditions |-> <<<<"machine_learning", "public_endpoint_enabled">>,
                        <<"storage_account", "ml_data_publicly_accessible">>,
                        <<"container_registry", "ml_models_not_scanned">>>>,
       severity |-> "high"],
      [name |-> "identity_sprawl",
       conditions |-> <<<<"app_service", "using_service_principal">>,
                        <<"vm", "using_different_service_principal">>,
                        <<"key_vault", "multiple_access_policies">>>>,
       severity |-> "medium"],
      [name |-> "privileged_access_exposure",
       conditions |-> <<<<"subscription", "multiple_owner_assignments">>,
                        <<"key_vault", "broad_access_policies">>,
                        <<"storage_account", "account_key_in_use">>>>,
       severity |-> "critical"],
      [name |-> "network_segmentation_gap",
       conditions |-> <<<<"vnet", "no_network_segmentation">>,
                        <<"nsg", "permissive_rules_between_subnets">>,
                        <<"firewall", "not_configured">>>>,
       severity |-> "high"],
      [name |-> "exposed_private_endpoints",
       conditions |-> <<<<"storage_account", "has_private_endpoint">>,
                        <<"storage_account", "public_access_still_enabled">>,
                        <<"sql_database", "firewall_allows_azure_services">>>>,
       severity |-> "high"]
    >>

(* dict.get(key, []) *)
GetOrEmpty(d, key) == IF key \in DOMAIN d THEN d[key] ELSE <<>>

(* Faulty variant of ImpactPositions: only the first entry of each impacts
   list is read. *)
ImpactPositions_First(relationships, impacted) ==
    {e \in UNION {{<<i, j>> : j \in 1..Len(relationships[resource_relationships_keys[i]].impacts)} :
                     i \in {i \in 1..Len(resource_relationships_keys) :
                               resource_relationships_keys[i] \in DOMAIN relationships}} :
        /\ e[2] = 1
        /\ relationships[resource_relationships_keys[e[1]]].impacts[e[2]] = impacted}

(* The positions <<i, j>>, key i of the dict and entry j of its impacts list,
   at which the two loops of lines 856-860 meet the category. *)
ImpactPositions(relationships, impacted) ==
    {e \in UNION {{<<i, j>> : j \in 1..Len(relationships[resource_relationships_keys[i]].impacts)} :
                     i \in {i \in 1..Len(resource_relationships_keys) :
                               resource_relationships_keys[i] \in DOMAIN relationships}} :
        relationships[resource_relationships_keys[e[1]]].impacts[e[2]] = impacted}

(* The loops reach position e before position f. *)
Before(e, f) == e[1] < f[1] \/ (e[1] = f[1] /\ e[2] < f[2])

(* Lines 852-863: a category met in an impacts list gets a list, to which the
   key of the impacts list is appended each time the loops meet the category. *)
_build_reverse_mapping(relationships) ==
    [impacted \in UNION {{relationships[k].impacts[j] :
                             j \in 1..Len(relationships[k].impacts)} :
                         k \in DOMAIN relationships} |->
        LET met == ImpactPositions(relationships, impacted)
        IN [n \in 1..Cardinality(met) |->
               resource_relationships_keys[
                   (CHOOSE e \in met :
                       Cardinality({f \in met : Before(f, e)}) = n - 1)[1]]]]

(* CrossAgentIntelligence.get_dependencies *)
get_relationship_dependencies(relationships, resource_type) ==
    IF resource_type \in DOMAIN relationships
    THEN relationships[resource_type].depends_on
    ELSE <<>>

get_impacts(relationships, resource_type) ==
    IF resource_type \in DOMAIN relationships
    THEN relationships[resource_type].impacts
    ELSE <<>>

get_impacted_by(reverse_map, resource_type) == GetOrEmpty(reverse_map, resource_type)

(* Faulty variant of NextResources: the edges that arrive at the category are
   followed as well, which makes the search one of the undirected graph. *)
NextResources_Undirected(relationships, current) ==
    get_relationship_dependencies(relationships, current)
    \o get_impacts(relationships, current)
    \o SelectSeq(resource_relationships_keys,
                 LAMBDA k :
                    /\ k \in DOMAIN relationships
                    /\ \/ \E j \in 1..Len(relationships[k].depends_on) :
                              relationships[k].depends_on[j] = current
                       \/ \E j \in 1..Len(relationships[k].impacts) :
                              relationships[k].impacts[j] = current)

(* Faulty variant of NextResources: the impacts are not followed. *)
NextResources_DependsOnly(relationships, current) ==
    get_relationship_dependencies(relationships, current)

(* self.get_dependencies(current) + self.get_impacts(current), line 895 *)
NextResources(relationships, current) ==
    get_relationship_dependencies(relationships, current)
    \o get_impacts(relationships, current)

(* Faulty variant of InitialQueue: the path of the first entry is empty. *)
InitialQueue_EmptyPath(start_type) == << <<start_type, <<>>>> >>

(* queue = [(start_type, [start_type])], line 885 *)
InitialQueue(start_type) == << <<start_type, <<start_type>>>> >>

(* Faulty variant of Enqueue: new entries go to the front of the queue. *)
Enqueue_Front(queue, entries) == entries \o queue

(* queue.append(...) for each entry in turn, line 897 *)
Enqueue(queue, entries) == queue \o entries

(* Faulty variant of DropVisited: the test `if current in visited` is lost. *)
DropVisited_KeepAll(queue, visited, end_type) == queue

(* The queue after the loop has popped and dropped, by `continue`, its leading
   entries whose category is visited already (lines 888-893). *)
DropVisited(queue, visited, end_type) ==
    LET live == {p \in 1..Len(queue) :
                    queue[p][1] = end_type \/ queue[p][1] \notin visited}
    IN IF live = {} THEN <<>>
       ELSE SubSeq(queue, CHOOSE p \in live : \A q \in live : p <= q, Len(queue))

RECURSIVE ChainLoop(_, _, _, _, _)
(* The while loop of find_relationship_chain, lines 887-897, one expansion at
   a time.  The result keeps the returned path and, in order, the categories
   added to visited. *)
ChainLoop(relationships, queue, visited, expanded, end_type) ==
    LET live == DropVisited(queue, visited, end_type)
        current == Head(live)[1]
        path == Head(live)[2]
        seen == visited \cup {current}
        unvisited == SelectSeq(NextResources(relationships, current),
                               LAMBDA n : n \notin seen)
        entries == [j \in 1..Len(unvisited) |->
                       <<unvisited[j], Append(path, unvisited[j])>>]
    IN IF live = <<>> THEN [path |-> <<>>, expanded |-> expanded]
       ELSE IF current = end_type THEN [path |-> path, expanded |-> expanded]
       ELSE ChainLoop(relationships, Enqueue(Tail(live), entries), seen,
                      Append(expanded, current), end_type)

(* A run of the search: the path it returned and the categories it expanded. *)
ChainSearch(relationships, start_type, end_type) ==
    ChainLoop(relationships, InitialQueue(start_type), {}, <<>>, end_type)

find_relationship_chain(relationships, start_type, end_type) ==
    ChainSearch(relationships, start_type, end_type).path

(* Faulty variant of RelationshipsAfterExpand: the impacts are appended, by
   extend, to the list get_dependencies handed out, which is the catalog's own. *)
RelationshipsAfterExpand_Extend(relationships, current) ==
    IF current \in DOMAIN relationships
    THEN [relationships EXCEPT
            ![current].depends_on = @ \o relationships[current].impacts]
    ELSE relationships

(* The catalog after line 895: get_dependencies and get_impacts hand out the
   catalog's own lists, and `+` builds a list of its own from the two. *)
RelationshipsAfterExpand(relationships, current) == relationships

(* The catalog after a call of find_relationship_chain that expanded the
   given categories: each expansion works on the entry of its own category. *)
RelationshipsAfterChain(relationships, expanded) ==
    [k \in DOMAIN relationships |->
        IF \E j \in 1..Len(expanded) : expanded[j] = k
        THEN RelationshipsAfterExpand(relationships, k)[k]
        ELSE relationships[k]]

RECURSIVE IndexBySeverityFrom(_, _, _)
IndexBySeverityFrom(severity_index, rules, i) ==
    IF i > Len(rules) THEN severity_index
    ELSE IndexBySeverityFrom(
            [severity_index EXCEPT ![rules[i].severity] = Append(@, rules[i])],
            rules, i + 1)

_index_rules_by_severity(rules) ==
    IndexBySeverityFrom([s \in {"critical", "high", "medium", "low"} |-> <<>>], rules, 1)

(* The categories the conditions of a rule name: condition[0], line 922. *)
ConditionCategories(rule) ==
    {rule.conditions[j][1] : j \in 1..Len(rule.conditions)}

(* The list without the entries equal to an earlier one: what
   `if rule not in list: list.append(rule)` keeps of the rules it is given. *)
WithoutRepeats(list) ==
    LET first == {p \in 1..Len(list) : \A q \in 1..(p - 1) : list[q] # list[p]}
    IN [n \in 1..Cardinality(first) |->
           list[CHOOSE p \in first : Cardinality({q \in first : q < p}) = n - 1]]

(* Lines 916-928: each category of a condition is given, in the order of
   correlation_rules, the rules one of whose conditions names it. *)
_index_rules_by_resource(rules) ==
    [resource_type \in UNION {ConditionCategories(rules[i]) : i \in 1..Len(rules)} |->
        WithoutRepeats(SelectSeq(rules,
                                 LAMBDA rule : resource_type \in ConditionCategories(rule)))]

(* applicable_rules.update(rules), line 936: a set hashes what it is given, and
   every rule is a dict, which Python cannot hash; update raises TypeError as
   soon as the list holds a rule. *)
SetUpdateRaises(rules) == rules # <<>>

RECURSIVE ApplicableFrom(_, _, _)
(* The loop of get_applicable_rules.  No rule ever enters the set, so the list
   made of it when the loop ends is empty. *)
ApplicableFrom(index, resource_types, i) ==
    IF i > Len(resource_types) THEN [raised |-> None, value |-> <<>>]
    ELSE IF SetUpdateRaises(GetOrEmpty(index, resource_types[i]))
    THEN [raised |-> "TypeError", value |-> <<>>]
    ELSE ApplicableFrom(index, resource_types, i + 1)

get_applicable_rules(index, resource_types) == ApplicableFrom(index, resource_types, 1)

(***************************************************************************)
(* kernel_plugins/mcp_plugin.py: MCPPlugin.                                *)
(***************************************************************************)
(* The keys the three _init_*_mcp_server methods file their clients under. *)
Servers == {"azure", "docs", "waf"}

(* self.mcp_clients = {}, line 18 *)
NoClients == [s \in {} |-> 0]

(* Before the first call of initialize or cleanup. *)
NoCall ==
    [op |-> None, was_initialized |-> FALSE, opened |-> 0, attempted |-> {},
     shutdown_raised |-> {}, raised |-> None]

(* Faulty variant of NeedsInitialize: the test of the flag is lost. *)
NeedsInitialize_Always(initialized) == TRUE

(* `if self._initialized: return`, lines 24-25 *)
NeedsInitialize(initialized) == ~initialized

(* self.mcp_clients[name] = client for the servers whose Client.initialize
   returned; the client is named by the call that made it. *)
WithClients(clients, connected, call) ==
    [s \in DOMAIN clients \cup connected |->
        IF s \in connected THEN call ELSE clients[s]]

(* `if self._http_session: await self._http_session.close()`, lines 359-360:
   a ClientSession object is truthy, open or closed. *)
SessionAfterCleanup(session) == IF session # None THEN "closed" ELSE None

(***************************************************************************)
(* State.                                                                  *)
(***************************************************************************)
VARIABLES
    pc,                 \* "idle", "selected", "raised", "planned", "returned" or "optimized"
    resources,          \* the argument of select_agents_for_resources
    raised,             \* the exception select_agents_for_resources raised, or None
    resource_graph,     \* the graph select_agents_for_resources built
    agent_assignments,  \* its agent_assignments when it returned
    execution_plan,     \* <<its return value>>, or <<>> while there is none
    plan,               \* <<the AssessmentPlan>>, or <<>> while there is none
    correlation_calls,  \* calls of plan.add_correlation_step so far
    response,           \* what create_assessment_plan returned: [text, exception]
    saved_plans,        \* the plans memory_store.save_plan has stored
    resource_relationships,  \* CrossAgentIntelligence.resource_relationships
    impacted_by,             \* CrossAgentIntelligence.impacted_by
    correlation_rules,       \* CrossAgentIntelligence.correlation_rules
    rules_by_severity,       \* CrossAgentIntelligence.rules_by_severity
    rules_by_resource,       \* CrossAgentIntelligence.rules_by_resource
    query,              \* the last call of a query method: [op, args]
    answer,             \* what that call did: [raised, value]
    mcp_clients,        \* MCPPlugin.mcp_clients: server name -> the call that made its client
    _initialized,       \* MCPPlugin._initialized
    _http_session,      \* MCPPlugin._http_session: None, "open" or "closed"
    plugin_calls,       \* calls of initialize and cleanup so far
    last_call,          \* what the last of them did
    shutdown_errors     \* the servers whose shutdown was logged as failed

planner_vars == <<pc, resources, raised, resource_graph, agent_assignments,
                  execution_plan, plan, correlation_calls, response, saved_plans>>

catalog_vars == <<resource_relationships, impacted_by, correlation_rules,
                  rules_by_severity, rules_by_resource>>

query_vars == <<query, answer>>

plugin_vars == <<mcp_clients, _initialized, _http_session, plugin_calls, last_call,
                 shutdown_errors>>

vars == <<planner_vars, catalog_vars, query_vars, plugin_vars>>

(* AzureAssessmentPlannerAgent.__init__ builds the selector and the
   CrossAgentIntelligence, whose __init__ fills the catalog and its indexes. *)
Init ==
    /\ pc = "idle"
    /\ resources = <<>>
    /\ raised = None
    /\ resource_graph = EmptyGraph
    /\ agent_assignments = NoAssignments
    /\ execution_plan = <<>>
    /\ plan = <<>>
    /\ correlation_calls = 0
    /\ response = [text |-> None, exception |-> None]
    /\ saved_plans = <<>>
    /\ resource_relationships = resource_relationships_literal
    /\ impacted_by = _build_reverse_mapping(resource_relationships_literal)
    /\ correlation_rules = correlation_rules_literal
    /\ rules_by_severity = _index_rules_by_severity(correlation_rules_literal)
    /\ rules_by_resource = _index_rules_by_resource(correlation_rules_literal)
    /\ query = [op |-> None, args |-> <<>>]
    /\ answer = [raised |-> None, value |-> <<>>]
    /\ mcp_clients = NoClients
    /\ _initialized = FALSE
    /\ _http_session = None
    /\ plugin_calls = 0
    /\ last_call = NoCall
    /\ shutdown_errors = {}

(* select_agents_for_resources(rs), lines 418-459.  The locals of a call that
   raised are gone with its frame. *)
SelectAgentsForResources ==
    /\ pc = "idle"
    /\ \E n \in 0..MaxResources : \E shapes \in [1..n -> ResourceShapes] :
        LET rs == WithIds(shapes)
            graph == build_resource_dependency_graph(rs)
            acc == SelectLoop([agent_assignments |-> NoAssignments, raised |-> None,
                               graph |-> graph], rs, 1)
        IN /\ resources' = rs
           /\ IF acc.raised = None
              THEN /\ pc' = "selected"
                   /\ raised' = None
                   /\ resource_graph' = acc.graph
                   /\ agent_assignments' = acc.agent_assignments
                   /\ execution_plan' = <<optimize_execution_plan(acc.agent_assignments)>>
              ELSE /\ pc' = "raised"
                   /\ raised' = acc.raised
                   /\ UNCHANGED <<resource_graph, agent_assignments, execution_plan>>
    /\ UNCHANGED <<plan, correlation_calls, response, saved_plans, catalog_vars, query_vars,
                   plugin_vars>>

(* AzureAssessmentPlannerAgent.create_parallel_execution_plan *)
CreateParallelExecutionPlan ==
    /\ pc = "selected"
    /\ plan' = <<create_parallel_execution_plan(execution_plan[1])>>
    /\ pc' = "planned"
    /\ UNCHANGED <<resources, raised, resource_graph, agent_assignments, execution_plan,
                   correlation_calls, response, saved_plans, catalog_vars, query_vars,
                   plugin_vars>>

(* plan.add_correlation_step(...); nothing in the method stops a second call. *)
AddCorrelationStep ==
    /\ pc = "planned"
    /\ correlation_calls < MaxCorrelationCalls
    /\ plan' = <<add_correlation_step(plan[1])>>
    /\ correlation_calls' = correlation_calls + 1
    /\ UNCHANGED <<pc, resources, raised, resource_graph, agent_assignments, execution_plan,
                   response, saved_plans, catalog_vars, query_vars,
                   plugin_vars>>

(* The three strings create_assessment_plan returns: the text of line 228,
   the text of line 253 with the exception it names, and the text of
   _format_plan_response. *)
NoResourcesMessage ==
    [text |-> "No resources found in the specified scope. Please check the scope and try again.",
     exception |-> None]

ErrorMessage(e) == [text |-> "Error creating assessment plan: ", exception |-> e]

PlanResponse == [text |-> "Azure Assessment Plan Created", exception |-> None]

(* Faulty variant of NothingDiscovered: the empty list is planned as any other. *)
NothingDiscovered_Never(rs) == FALSE

(* `if not resources`, line 227 *)
NothingDiscovered(rs) == Len(rs) = 0

(* Faulty variant of PlanToSave: the plan is stored before step 4. *)
PlanToSave_BeforeCorrelation(ep) == create_parallel_execution_plan(ep)

(* The plan save_plan is called with at line 246: the one of step 3 after
   step 4 has added the correlation step to it. *)
PlanToSave(ep) == add_correlation_step(create_parallel_execution_plan(ep))

(* create_assessment_plan(scope), lines 218-253, as one call.  The discovery
   and the store are collaborators outside the class: the discovery returns
   a list of up to MaxDiscovered resources or raises, save_plan stores the
   plan or raises.  Whatever is
   raised inside the try block is turned into the error message. *)
CreateAssessmentPlan ==
    /\ pc = "idle"
    /\ pc' = "returned"
    /\ \/ /\ response' = ErrorMessage("discover_azure_resources")
          /\ UNCHANGED <<resources, raised, resource_graph, agent_assignments,
                         execution_plan, plan, correlation_calls, saved_plans>>
       \/ \E n \in 0..MaxDiscovered : \E shapes \in [1..n -> ResourceShapes] :
            LET rs == WithIds(shapes)
                graph == build_resource_dependency_graph(rs)
                acc == SelectLoop([agent_assignments |-> NoAssignments, raised |-> None,
                                   graph |-> graph], rs, 1)
                ep == optimize_execution_plan(acc.agent_assignments)
                p == add_correlation_step(create_parallel_execution_plan(ep))
            IN /\ resources' = rs
               /\ raised' = None
               /\ IF NothingDiscovered(rs)
                  THEN /\ response' = NoResourcesMessage
                       /\ UNCHANGED <<resource_graph, agent_assignments, execution_plan,
                                      plan, correlation_calls, saved_plans>>
                  ELSE IF acc.raised # None
                  THEN /\ response' = ErrorMessage(acc.raised)
                       /\ UNCHANGED <<resource_graph, agent_assignments, execution_plan,
                                      plan, correlation_calls, saved_plans>>
                  ELSE /\ resource_graph' = acc.graph
                       /\ agent_assignments' = acc.agent_assignments
                       /\ execution_plan' = <<ep>>
                       /\ plan' = <<p>>
                       /\ correlation_calls' = 1
                       /\ \/ /\ saved_plans' = Append(saved_plans, PlanToSave(ep))
                             /\ response' = PlanResponse
                          \/ /\ saved_plans' = saved_plans
                             /\ response' = ErrorMessage("save_plan")
    /\ UNCHANGED <<catalog_vars, query_vars,
                   plugin_vars>>

Next ==
    \/ SelectAgentsForResources
    \/ CreateParallelExecutionPlan
    \/ AddCorrelationStep
    \/ CreateAssessmentPlan

Spec == Init /\ [][Next]_vars

(***************************************************************************)
(* The query methods of CrossAgentIntelligence, called one after another   *)
(* in any order.                                                           *)
(***************************************************************************)
Range(seq) == {seq[i] : i \in 1..Len(seq)}

(* The categories the catalog names, as a key or in a list, and one it does
   not name. *)
Categories ==
    DOMAIN resource_relationships_literal
    \cup UNION {Range(resource_relationships_literal[k].depends_on)
                \cup Range(resource_relationships_literal[k].impacts) :
                   k \in DOMAIN resource_relationships_literal}
    \cup {TypeUnmapped}

(* The categories the conditions of the rules name, and one Azure type. *)
RuleCategories ==
    UNION {ConditionCategories(correlation_rules_literal[i]) :
              i \in 1..Len(correlation_rules_literal)} \cup {TypeVM}

FindRelationshipChain ==
    /\ query.op = None
    /\ \E start_type \in Categories, end_type \in Categories :
        LET search == ChainSearch(resource_relationships, start_type, end_type)
        IN /\ query' = [op |-> "find_relationship_chain",
                        args |-> <<start_type, end_type>>]
           /\ answer' = [raised |-> None, value |-> search.path]
           /\ resource_relationships' =
                 RelationshipsAfterChain(resource_relationships, search.expanded)
    /\ UNCHANGED <<planner_vars, plugin_vars, impacted_by, correlation_rules, rules_by_severity,
                   rules_by_resource>>

GetDependencies ==
    /\ query.op = None
    /\ \E resource_type \in Categories :
        /\ query' = [op |-> "get_dependencies", args |-> <<resource_type>>]
        /\ answer' = [raised |-> None,
                      value |-> get_relationship_dependencies(resource_relationships,
                                                              resource_type)]
    /\ UNCHANGED <<planner_vars, catalog_vars, plugin_vars>>

GetImpacts ==
    /\ query.op = None
    /\ \E resource_type \in Categories :
        /\ query' = [op |-> "get_impacts", args |-> <<resource_type>>]
        /\ answer' = [raised |-> None,
                      value |-> get_impacts(resource_relationships, resource_type)]
    /\ UNCHANGED <<planner_vars, catalog_vars, plugin_vars>>

GetImpactedBy ==
    /\ query.op = None
    /\ \E resource_type \in Categories :
        /\ query' = [op |-> "get_impacted_by", args |-> <<resource_type>>]
        /\ answer' = [raised |-> None,
                      value |-> get_impacted_by(impacted_by, resource_type)]
    /\ UNCHANGED <<planner_vars, catalog_vars, plugin_vars>>

GetApplicableRules ==
    /\ query.op = None
    /\ \E n \in 0..MaxRuleCategories : \E resource_types \in [1..n -> RuleCategories] :
        /\ query' = [op |-> "get_applicable_rules", args |-> resource_types]
        /\ answer' = get_applicable_rules(rules_by_resource, resource_types)
    /\ UNCHANGED <<planner_vars, catalog_vars, plugin_vars>>

(* The caller takes the answer; the object is ready for the next call. *)
QueryReturn ==
    /\ query.op # None
    /\ query' = [op |-> None, args |-> <<>>]
    /\ answer' = [raised |-> None, value |-> <<>>]
    /\ UNCHANGED <<planner_vars, catalog_vars, plugin_vars>>

NextCatalog ==
    \/ QueryReturn
    \/ FindRelationshipChain
    \/ GetDependencies
    \/ GetImpacts
    \/ GetImpactedBy
    \/ GetApplicableRules

SpecCatalog == Init /\ [][NextCatalog]_vars

(***************************************************************************)
(* optimize_execution_plan called on its own: the method is public and     *)
(* takes any assignment map, the one of the generic fallback included.     *)
(***************************************************************************)
(* The key assign_to_generic_agent files the fallback under (generic_type). *)
GenericKey == "Generic_Resource_Assessment_Agent"

(* Two worker types of priority 1, two of priority 2, and the fallback. *)
OptimizeKeys ==
    {ExtendedAgentType["VM_ASSESSMENT"], ExtendedAgentType["KEY_VAULT_ASSESSMENT"],
     ExtendedAgentType["FUNCTIONS_ASSESSMENT"],
     ExtendedAgentType["MANAGED_DISKS_ASSESSMENT"], GenericKey}

(* The details of an assignment of one resource: those of lines 436-453 for a
   worker type of the table, those of lines 597-605 for the fallback. *)
Details(a, deps) ==
    IF a = GenericKey
    THEN [resources |-> <<IdName[1]>>,
          priority |-> 3,
          estimated_time |-> 30,
          dependencies |-> {},
          checks |-> <<"basic_security", "basic_cost", "basic_compliance">>]
    ELSE [resources |-> <<IdName[1]>>,
          priority |-> agent_capabilities[a].priority,
          estimated_time |-> agent_capabilities[a].execution_time,
          dependencies |-> deps,
          checks |-> agent_capabilities[a].checks]

(* optimize_execution_plan(assignments), lines 537-574. *)
OptimizeExecutionPlan ==
    /\ pc = "idle"
    /\ \E keys \in SUBSET OptimizeKeys : \E deps \in [keys -> {{}, {ExternalId}}] :
        LET assignments == [a \in keys |-> Details(a, deps[a])]
        IN /\ (GenericKey \in keys => deps[GenericKey] = {})
           /\ agent_assignments' = assignments
           /\ execution_plan' = <<optimize_execution_plan(assignments)>>
    /\ pc' = "optimized"
    /\ UNCHANGED <<resources, raised, resource_graph, plan, correlation_calls, response,
                   saved_plans, catalog_vars, query_vars,
                   plugin_vars>>

NextOptimize == OptimizeExecutionPlan

SpecOptimize == Init /\ [][NextOptimize]_vars

(***************************************************************************)
(* MCPPlugin.initialize and MCPPlugin.cleanup, called one after another in *)
(* any order.  The clients and the HTTP session are collaborators: a       *)
(* connection succeeds or raises, a shutdown returns or raises.            *)
(***************************************************************************)
(* initialize(), lines 22-45.  Each _init_*_mcp_server logs and swallows the
   exception of its connection, so the three are always attempted; what is
   raised by aiohttp.ClientSession() is logged and raised again. *)
Initialize ==
    /\ plugin_calls < MaxPluginCalls
    /\ plugin_calls' = plugin_calls + 1
    /\ IF ~NeedsInitialize(_initialized)
       THEN /\ last_call' = [NoCall EXCEPT !.op = "initialize",
                                           !.was_initialized = _initialized]
            /\ UNCHANGED <<mcp_clients, _initialized, _http_session>>
       ELSE \/ /\ last_call' = [NoCall EXCEPT !.op = "initialize",
                                              !.was_initialized = _initialized,
                                              !.raised = "ClientSession"]
               /\ UNCHANGED <<mcp_clients, _initialized, _http_session>>
            \/ \E connected \in SUBSET Servers :
                  /\ _http_session' = "open"
                  /\ mcp_clients' = WithClients(mcp_clients, connected, plugin_calls + 1)
                  /\ _initialized' = TRUE
                  /\ last_call' = [NoCall EXCEPT !.op = "initialize",
                                                 !.was_initialized = _initialized,
                                                 !.opened = 1,
                                                 !.attempted = Servers]
    /\ UNCHANGED <<shutdown_errors, planner_vars, catalog_vars, query_vars>>

(* cleanup(), lines 348-363: the exception of a shutdown is logged and the
   loop goes on. *)
Cleanup ==
    /\ plugin_calls < MaxPluginCalls
    /\ plugin_calls' = plugin_calls + 1
    /\ \E failing \in SUBSET DOMAIN mcp_clients :
          /\ last_call' = [NoCall EXCEPT !.op = "cleanup",
                                         !.was_initialized = _initialized,
                                         !.shutdown_raised = failing]
          /\ shutdown_errors' = shutdown_errors \cup failing
    /\ _http_session' = SessionAfterCleanup(_http_session)
    /\ mcp_clients' = NoClients
    /\ _initialized' = FALSE
    /\ UNCHANGED <<planner_vars, catalog_vars, query_vars>>

NextPlugin ==
    \/ Initialize
    \/ Cleanup

SpecPlugin == Init /\ [][NextPlugin]_vars

(***************************************************************************)
(* Properties.                                                             *)
(***************************************************************************)

(* select_agents_for_resources has been called and has ended. *)
SelectEnded == pc \in {"selected", "raised", "planned"}

(* select_agents_for_resources has returned a value. *)
SelectReturned == pc \in {"selected", "planned"}

(* The agent types whose assignment lists the resource id. *)
AssignmentsOf(id) ==
    {a \in DOMAIN agent_assignments : id \in Range(agent_assignments[a].resources)}

(* The numbers of the waves of the execution plan that hold the agent type. *)
WavesOf(a) ==
    {execution_plan[1].execution_waves[k].wave :
        k \in {j \in 1..Len(execution_plan[1].execution_waves) :
                  a \in DOMAIN execution_plan[1].execution_waves[j].agents}}

(* The resource has no entry in the static mapping and matches no special case. *)
Unmapped(resource) ==
    /\ resource.type \notin DOMAIN agent_mapping
    /\ ~SpecialCasesRaise(resource)

(* C1: after select_agents_for_resources has run over a list of resources with
   distinct ids, every input id is in the resource list of exactly one worker
   assignment and total_resources is the number of input resources. *)
C1_EveryResourceAssignedOnce ==
    SelectEnded =>
        /\ raised = None
        /\ \A i \in 1..Len(resources) : Cardinality(AssignmentsOf(resources[i].id)) = 1
        /\ execution_plan[1].total_resources = Len(resources)

(* C2: a run over resources none of which makes a special-case predicate fail
   raises nothing, and each unmapped resource is listed by the generic fallback
   assignment and by no other; that assignment has priority 3 and the three
   basic checks. *)
C2_UnmappedRoutedToGeneric ==
    (/\ SelectEnded
     /\ \A i \in 1..Len(resources) : ~SpecialCasesRaise(resources[i])
     /\ \E i \in 1..Len(resources) : Unmapped(resources[i]))
    => /\ raised = None
       /\ \E g \in DOMAIN agent_assignments :
            /\ agent_assignments[g].priority = 3
            /\ agent_assignments[g].checks =
                  <<"basic_security", "basic_cost", "basic_compliance">>
            /\ \A i \in 1..Len(resources) :
                  Unmapped(resources[i]) => AssignmentsOf(resources[i].id) = {g}

(* C3: the estimated_time of the assignment of a mapped worker type is the
   execution_time of that worker type, whatever the number of its resources. *)
C3_EstimatedTimeIsBaseTime ==
    SelectReturned =>
        \A a \in DOMAIN agent_assignments :
            a \in DOMAIN agent_capabilities =>
                /\ Len(agent_assignments[a].resources) >= 1
                /\ agent_assignments[a].estimated_time = agent_capabilities[a].execution_time
                /\ \A k \in 1..Len(execution_plan[1].execution_waves) :
                      a \in DOMAIN execution_plan[1].execution_waves[k].agents =>
                          execution_plan[1].execution_waves[k].agents[a].estimated_time =
                              agent_capabilities[a].execution_time

(* Two virtual machines went to the 30 s VM worker, which is estimated at 30. *)
C3_Witness ==
    /\ SelectReturned
    /\ ExtendedAgentType["VM_ASSESSMENT"] \in DOMAIN agent_assignments
    /\ Len(agent_assignments[ExtendedAgentType["VM_ASSESSMENT"]].resources) = 2
    /\ agent_assignments[ExtendedAgentType["VM_ASSESSMENT"]].estimated_time = 30

(* C4: when an assignment X of wave k depends on a resource of the batch that
   is assigned to another worker type Y, Y is in a wave before k. *)
C4_WavesRespectDependencies ==
    SelectReturned =>
        \A x \in DOMAIN agent_assignments : \A d \in agent_assignments[x].dependencies :
            \A y \in AssignmentsOf(d) \ {x} :
                \A k \in WavesOf(x) : \E j \in WavesOf(y) : j < k

(* C5: an assignment of priority 1 is in wave 1 when it has no dependencies and
   in wave 2 when it has some; one of priority 2 is in wave 3 or in wave 4
   likewise; it is in no other wave. *)
C5_BucketOrder ==
    SelectReturned =>
        \A a \in DOMAIN agent_assignments :
            LET d == agent_assignments[a]
            IN /\ (d.priority = 1 /\ d.dependencies = {}) => WavesOf(a) = {1}
               /\ (d.priority = 1 /\ d.dependencies # {}) => WavesOf(a) = {2}
               /\ (d.priority = 2 /\ d.dependencies = {}) => WavesOf(a) = {3}
               /\ (d.priority = 2 /\ d.dependencies # {}) => WavesOf(a) = {4}

(* A plan with a worker of priority 1 in wave 2 and one of priority 2 in wave 4. *)
C5_Witness ==
    /\ SelectReturned
    /\ \E a \in DOMAIN agent_assignments :
          agent_assignments[a].priority = 1 /\ WavesOf(a) = {2}
    /\ \E a \in DOMAIN agent_assignments :
          agent_assignments[a].priority = 2 /\ WavesOf(a) = {4}

(* C6: the estimated_time of a wave is the largest estimated_time of its
   assignments, 0 when it has none, and estimated_total_time is the sum of the
   times of the four waves. *)
C6_WaveTimeIsMax ==
    SelectReturned =>
        LET waves == execution_plan[1].execution_waves
        IN /\ Len(waves) = 4
           /\ \A k \in 1..4 :
                 /\ \A a \in DOMAIN waves[k].agents :
                       waves[k].agents[a].estimated_time <= waves[k].estimated_time
                 /\ IF DOMAIN waves[k].agents = {}
                    THEN waves[k].estimated_time = 0
                    ELSE \E a \in DOMAIN waves[k].agents :
                            waves[k].agents[a].estimated_time = waves[k].estimated_time
           /\ execution_plan[1].estimated_total_time =
                 waves[1].estimated_time + waves[2].estimated_time
                 + waves[3].estimated_time + waves[4].estimated_time

(* Wave 1 holds the 30 s VM worker and the 40 s Key Vault worker and takes 40. *)
C6_Witness ==
    /\ SelectReturned
    /\ DOMAIN execution_plan[1].execution_waves[1].agents =
          {ExtendedAgentType["VM_ASSESSMENT"], ExtendedAgentType["KEY_VAULT_ASSESSMENT"]}
    /\ execution_plan[1].execution_waves[1].estimated_time = 40
    /\ execution_plan[1].estimated_total_time = 40

(* C7: in every state of an AssessmentPlan its estimated_total_time is the sum
   of the estimated_time of the waves in execution_waves. *)
C7_TotalTimeIsSumOfWaves ==
    pc = "planned" =>
        plan[1].estimated_total_time =
            SumOver([k \in 1..Len(plan[1].execution_waves) |->
                        plan[1].execution_waves[k].estimated_time],
                    1..Len(plan[1].execution_waves))

(* C8: the first add_correlation_step appends one wave after the waves of the
   plan; the wave holds the single assignment CrossResourceAnalysis, whose
   dependencies are the worker types of the waves before it and whose
   estimated_time is 60; correlation_step_added becomes true. *)
C8_CorrelationStepAppended ==
    (pc = "planned" /\ correlation_calls = 1) =>
        LET before == execution_plan[1].execution_waves
            waves == plan[1].execution_waves
            last == waves[Len(waves)]
        IN /\ Len(waves) = Len(before) + 1
           /\ SubSeq(waves, 1, Len(before)) = before
           /\ DOMAIN last.agents = {"CrossResourceAnalysis"}
           /\ \A a \in DOMAIN agent_capabilities :
                 a \in last.agents["CrossResourceAnalysis"].dependencies
                    <=> \E k \in 1..Len(before) : a \in DOMAIN before[k].agents
           /\ last.agents["CrossResourceAnalysis"].dependencies \subseteq
                 DOMAIN agent_capabilities
           /\ last.agents["CrossResourceAnalysis"].estimated_time = 60
           /\ last.estimated_time = 60
           /\ plan[1].correlation_step_added

(* The correlation step of a plan of two worker types depends on those two. *)
C8_Witness ==
    /\ pc = "planned"
    /\ correlation_calls = 1
    /\ plan[1].correlation_step_added
    /\ Cardinality(DOMAIN agent_assignments) = 2
    /\ plan[1].execution_waves[Len(plan[1].execution_waves)]
          .agents["CrossResourceAnalysis"].dependencies = DOMAIN agent_assignments

(* C9: whatever the number of calls of add_correlation_step, at most one wave
   of the plan holds a CrossResourceAnalysis assignment. *)
C9_AtMostOneCorrelationWave ==
    pc = "planned" =>
        Cardinality({k \in 1..Len(plan[1].execution_waves) :
                        "CrossResourceAnalysis" \in DOMAIN plan[1].execution_waves[k].agents})
            <= 1

(* C10: the efficiency is 1.0 for no assignments, in [0,1] for some, and 0.0
   for a single assignment of priority 1. *)
C10_EfficiencyRange ==
    SelectReturned =>
        LET e == execution_plan[1].parallelization_efficiency
        IN /\ e.den > 0
           /\ DOMAIN agent_assignments = {} => e.num = e.den
           /\ DOMAIN agent_assignments # {} => (0 <= e.num /\ e.num <= e.den)
           /\ \A a \in DOMAIN agent_assignments :
                 (DOMAIN agent_assignments = {a} /\ agent_assignments[a].priority = 1)
                    => e.num = 0

(* A single assignment of priority 1 has efficiency 0.0. *)
C10_Witness ==
    /\ SelectReturned
    /\ \E a \in DOMAIN agent_assignments :
          DOMAIN agent_assignments = {a} /\ agent_assignments[a].priority = 1
    /\ execution_plan[1].parallelization_efficiency.num = 0

(***************************************************************************)
(* Properties of the relationship catalog and the rule index.              *)
(***************************************************************************)
TypeNetworkInterfaces == "Microsoft.Network/networkInterfaces"

(* find_relationship_chain has been called and has returned. *)
ChainQuery == query.op = "find_relationship_chain"

(* The categories an edge of the catalog leads to from the category: the
   entries of its depends_on and impacts lists, none for a category that is
   not a key. *)
Targets(relationships, category) ==
    IF category \in DOMAIN relationships
    THEN Range(relationships[category].depends_on)
         \cup Range(relationships[category].impacts)
    ELSE {}

RECURSIVE ReachableFrom(_, _)
(* The categories reached from those of S along edges of the catalog. *)
ReachableFrom(relationships, S) ==
    LET T == S \cup UNION {Targets(relationships, c) : c \in S}
    IN IF T = S THEN S ELSE ReachableFrom(relationships, T)

RECURSIVE DistanceFrom(_, _, _, _)
(* d plus the least number of edges from a category of S to end_type, or -1
   when there is no path. *)
DistanceFrom(relationships, S, end_type, d) ==
    LET T == S \cup UNION {Targets(relationships, c) : c \in S}
    IN IF end_type \in S THEN d
       ELSE IF T = S THEN -1
       ELSE DistanceFrom(relationships, T, end_type, d + 1)

(* C11: find_relationship_chain(A, A) returns [A] for every category A, in the
   catalog or not; find_relationship_chain(A, B) returns [] when B is not
   reachable from A; a category absent from the catalog has no edge and the
   call raises nothing. *)
C11_ChainOfSelfAndUnreachable ==
    ChainQuery =>
        LET A == query.args[1]
            B == query.args[2]
        IN /\ answer.raised = None
           /\ A = B => answer.value = <<A>>
           /\ B \notin ReachableFrom(resource_relationships, {A}) => answer.value = <<>>
           /\ (A \notin DOMAIN resource_relationships /\ A # B) => answer.value = <<>>

(* The chain from a category the catalog does not name to itself. *)
C11_Witness ==
    /\ ChainQuery
    /\ query.args = <<TypeUnmapped, TypeUnmapped>>
    /\ TypeUnmapped \notin DOMAIN resource_relationships
    /\ answer.value = <<TypeUnmapped>>

(* C12 as stated: a chain from A to B exists exactly when one from B to A
   exists. *)
C12_ChainSymmetric ==
    ChainQuery =>
        (answer.value # <<>>
            <=> find_relationship_chain(resource_relationships,
                                        query.args[2], query.args[1]) # <<>>)

(* C12, amended: the search follows the depends_on and impacts edges in their
   direction only; a chain from A to B exists exactly when B is reached from A
   along those edges, whether or not A is reached from B. *)
C12_ChainFollowsDirectedEdges ==
    ChainQuery =>
        (answer.value # <<>>
            <=> query.args[2] \in ReachableFrom(resource_relationships, {query.args[1]}))

(* No chain from the network interface to the virtual machine, which depends
   on it. *)
C12_Witness ==
    /\ ChainQuery
    /\ query.args = <<TypeNetworkInterfaces, TypeVM>>
    /\ answer.value = <<>>
    /\ TypeNetworkInterfaces \in Range(resource_relationships[TypeVM].depends_on)

(* C13: a non-empty chain begins with start, ends with end, each of its steps
   (x, y) has y in depends_on(x) ++ impacts(x), and no path from start to end
   has fewer edges. *)
C13_ChainIsShortestPath ==
    (ChainQuery /\ answer.value # <<>>) =>
        LET chain == answer.value
        IN /\ chain[1] = query.args[1]
           /\ chain[Len(chain)] = query.args[2]
           /\ \A i \in 1..(Len(chain) - 1) :
                 chain[i + 1] \in Targets(resource_relationships, chain[i])
           /\ Len(chain) - 1 =
                 DistanceFrom(resource_relationships, {query.args[1]}, query.args[2], 0)

(* A chain of three edges between two categories that no single edge joins. *)
C13_Witness ==
    /\ ChainQuery
    /\ query.args = <<TypeSites, TypeDisks>>
    /\ Len(answer.value) = 4
    /\ TypeDisks \notin Targets(resource_relationships, TypeSites)

(* C14: X is in get_impacted_by(Y) exactly when Y is in get_impacts(X), and
   get_impacted_by of a category that nothing impacts is the empty list. *)
C14_ReverseIndexIsInverse ==
    query.op = "get_impacted_by" =>
        LET Y == query.args[1]
        IN /\ \A X \in Categories :
                 X \in Range(answer.value)
                    <=> Y \in Range(get_impacts(resource_relationships, X))
           /\ (\A X \in Categories : Y \notin Range(get_impacts(resource_relationships, X)))
                 => answer.value = <<>>

(* get_impacted_by of the storage account, which the virtual machine impacts
   second in its list, names the virtual machine. *)
C14_Witness ==
    /\ query.op = "get_impacted_by"
    /\ \E X \in DOMAIN resource_relationships :
          /\ Len(resource_relationships[X].impacts) >= 2
          /\ resource_relationships[X].impacts[2] = query.args[1]
          /\ X \in Range(answer.value)

(* C15: get_applicable_rules(categories) returns the rules one of whose
   conditions names a category of the input, each rule once, and no other. *)
C15_ApplicableRulesExact ==
    query.op = "get_applicable_rules" =>
        LET expected == {rule \in Range(correlation_rules) :
                            ConditionCategories(rule) \cap Range(query.args) # {}}
        IN /\ answer.raised = None
           /\ Range(answer.value) = expected
           /\ Len(answer.value) = Cardinality(expected)

(***************************************************************************)
(* Properties of the dependency graph, the routing and the wave numbers.   *)
(***************************************************************************)
(* The ids of the resources of the batch. *)
BatchIds == {resources[i].id : i \in 1..Len(resources)}

(* The ids the properties of a resource refer to, for the two resource types
   whose properties build_resource_dependency_graph reads. *)
References(resource) ==
    IF resource.type = TypeSites /\ resource.properties.has_serverFarmId
    THEN {v \in {resource.properties.serverFarmId} : Truthy(v)}
    ELSE IF resource.type = TypeVM /\ resource.properties.has_networkProfile
    THEN {v \in Range(resource.properties.networkInterfaces) : Truthy(v)}
    ELSE {}

(* C16: a reference to an id that is not in the batch is recorded in the
   depends_on set of the resource that refers to it, makes no node and no
   depended_by entry, and is not what makes a run raise. *)
C16_ExternalDependencyOneSided ==
    /\ SelectReturned =>
          \A i \in 1..Len(resources) : \A d \in References(resources[i]) \ BatchIds :
              /\ d \in resource_graph[resources[i].id].depends_on
              /\ d \notin DOMAIN resource_graph
              /\ DOMAIN resource_graph = BatchIds
              /\ \A n \in DOMAIN resource_graph :
                    resources[i].id \in resource_graph[n].depended_by
                        => n \in References(resources[i])
    /\ (SelectEnded /\ raised # None) =>
          \E i \in 1..Len(resources) :
              Unmapped(resources[i]) \/ SpecialCasesRaise(resources[i])

(* A web site whose serverFarmId names a plan outside the batch: the id is in
   its depends_on set and the graph has the site as its only node. *)
C16_Witness ==
    /\ SelectReturned
    /\ Len(resources) = 1
    /\ resources[1].type = TypeSites
    /\ resource_graph[resources[1].id].depends_on = {ExternalId}
    /\ DOMAIN resource_graph = {resources[1].id}

(* C17: a Microsoft.Web/sites resource whose kind starts with functionapp,
   whatever the case of its letters, goes to the Functions worker and not to
   the App Service worker; a Microsoft.CognitiveServices/accounts resource whose
   kind is formrecognizer, whatever the case, goes to the Form Recognizer
   worker; every other resource with a type in agent_mapping goes to the worker
   agent_mapping gives its type. *)
C17_SpecialCasesFirst ==
    SelectReturned =>
        \A i \in 1..Len(resources) :
            LET r == resources[i]
                kind == Lower(r.kind.chars)
            IN IF r.type = TypeSites /\ StartsWith(kind, functionapp)
               THEN AssignmentsOf(r.id) = {ExtendedAgentType["FUNCTIONS_ASSESSMENT"]}
               ELSE IF r.type = TypeCognitive /\ kind = formrecognizer
               THEN AssignmentsOf(r.id) = {ExtendedAgentType["FORM_RECOGNIZER_ASSESSMENT"]}
               ELSE r.type \in DOMAIN agent_mapping
                       => AssignmentsOf(r.id) = {agent_mapping[r.type]}

(* A site of kind FunctionApp,linux with the Functions worker and a Cognitive
   Services account of kind FormRecognizer with the Form Recognizer worker. *)
C17_Witness ==
    /\ SelectReturned
    /\ Len(resources) = 2
    /\ resources[1].type = TypeSites
    /\ resources[1].kind = KindFunctionAppLinux
    /\ resources[2].type = TypeCognitive
    /\ resources[2].kind = KindFormRecognizer
    /\ DOMAIN agent_assignments =
          {ExtendedAgentType["FUNCTIONS_ASSESSMENT"],
           ExtendedAgentType["FORM_RECOGNIZER_ASSESSMENT"]}

(* C18: the dependencies set of the assignment of a mapped worker type is the
   union of the graph's depends_on sets of the resources routed to it; making
   the assignments leaves the depends_on sets of the graph as
   build_resource_dependency_graph made them; the dependencies set of an
   assignment of the generic fallback is empty. *)
C18_DependenciesAreUnionOfGraphSets ==
    SelectReturned =>
        LET built == build_resource_dependency_graph(resources)
        IN /\ \A a \in DOMAIN agent_assignments :
                 IF a \in DOMAIN agent_capabilities
                 THEN agent_assignments[a].dependencies =
                         UNION {built[id].depends_on :
                                   id \in Range(agent_assignments[a].resources)}
                 ELSE agent_assignments[a].dependencies = {}
           /\ DOMAIN resource_graph = DOMAIN built
           /\ \A id \in DOMAIN built :
                 resource_graph[id].depends_on = built[id].depends_on

(* Two web sites of the App Service worker with different dependencies: the
   worker has both, each site keeps its own. *)
C18_Witness ==
    /\ SelectReturned
    /\ Len(resources) = 2
    /\ AssignmentsOf(resources[1].id) = AssignmentsOf(resources[2].id)
    /\ resource_graph[resources[1].id].depends_on = {ExternalId}
    /\ resource_graph[resources[2].id].depends_on = {resources[1].id}
    /\ \E a \in DOMAIN agent_assignments :
          agent_assignments[a].dependencies = {ExternalId, resources[1].id}

(* create_assessment_plan has returned after a discovery that found nothing. *)
EmptyDiscovery ==
    /\ pc = "returned"
    /\ resources = <<>>
    /\ response.exception # "discover_azure_resources"

(* C19 as stated: when the discovery finds no resource, the engine returns a
   plan with zero waves. *)
C19_EmptyDiscoveryZeroWaves ==
    EmptyDiscovery => (plan # <<>> /\ plan[1].execution_waves = <<>>)

(* C19, amended: when the discovery finds no resource, create_assessment_plan
   returns the message of line 228 and makes no plan: the selector is not
   called, no correlation step is added, nothing is saved. *)
C19_EmptyDiscoveryNoPlan ==
    EmptyDiscovery =>
        /\ response = NoResourcesMessage
        /\ plan = <<>>
        /\ execution_plan = <<>>
        /\ correlation_calls = 0
        /\ saved_plans = <<>>

(* create_assessment_plan returned the message for no resources. *)
C19_Witness ==
    /\ EmptyDiscovery
    /\ response = NoResourcesMessage
    /\ plan = <<>>

(* The wave numbers of a list of waves. *)
WaveNumbers(execution_waves) ==
    [k \in 1..Len(execution_waves) |-> execution_waves[k].wave]

(* C20: optimize_execution_plan gives four waves numbered 1, 2, 3, 4 in this
   order, empty ones included; the wave the first add_correlation_step appends
   is numbered 5; the wave numbers of a plan increase along execution_waves. *)
C20_WaveNumbers ==
    /\ SelectReturned => WaveNumbers(execution_plan[1].execution_waves) = <<1, 2, 3, 4>>
    /\ (plan # <<>> /\ correlation_calls = 1)
          => WaveNumbers(plan[1].execution_waves) = <<1, 2, 3, 4, 5>>
    /\ plan # <<>> =>
          \A k \in 1..(Len(plan[1].execution_waves) - 1) :
              plan[1].execution_waves[k].wave < plan[1].execution_waves[k + 1].wave

(* The plan of one virtual machine after the first add_correlation_step: three
   of its regular waves are empty and its waves are numbered 1 to 5. *)
C20_Witness ==
    /\ pc = "planned"
    /\ correlation_calls = 1
    /\ Len(resources) = 1
    /\ \A k \in 2..4 : DOMAIN plan[1].execution_waves[k].agents = {}
    /\ DOMAIN plan[1].execution_waves[1].agents # {}
    /\ WaveNumbers(plan[1].execution_waves) = <<1, 2, 3, 4, 5>>

(* optimize_execution_plan has returned the plan of the assignment map. *)
Optimized == pc = "optimized"

(* C21: an assignment whose priority is neither 1 nor 2 is in none of the four
   waves optimize_execution_plan returns. *)
C21_OtherPriorityInNoWave ==
    Optimized =>
        \A a \in DOMAIN agent_assignments :
            agent_assignments[a].priority \notin {1, 2} => WavesOf(a) = {}

(* C21 as the code has it: an assignment whose priority is neither 1 nor 2 is
   in wave 3 when it has no dependencies and in wave 4 when it has some, and
   in no other wave. *)
C21_OtherPriorityInLaterWaves ==
    Optimized =>
        \A a \in DOMAIN agent_assignments :
            agent_assignments[a].priority \notin {1, 2} =>
                WavesOf(a) = IF agent_assignments[a].dependencies = {} THEN {3} ELSE {4}

(* The fallback assignment of priority 3 is in wave 3. *)
C21_Witness ==
    /\ Optimized
    /\ GenericKey \in DOMAIN agent_assignments
    /\ agent_assignments[GenericKey].priority = 3
    /\ WavesOf(GenericKey) = {3}

(* C23: no call of get_dependencies, get_impacts, get_impacted_by,
   find_relationship_chain or get_applicable_rules changes
   resource_relationships, impacted_by, correlation_rules, rules_by_severity
   or rules_by_resource. *)
C23_CatalogReadOnly == [][UNCHANGED catalog_vars]_vars

(* A search that expanded categories and returned a chain of three has left
   the catalog and its indexes as __init__ built them. *)
C23_Witness ==
    /\ query.op = "find_relationship_chain"
    /\ Len(answer.value) = 3
    /\ resource_relationships = resource_relationships_literal
    /\ impacted_by = _build_reverse_mapping(resource_relationships_literal)
    /\ rules_by_resource = _index_rules_by_resource(correlation_rules_literal)

(* C24: the four waves partition the assignment map: every worker type of the
   assignments, whatever its priority, is in exactly one wave with its own
   details, the waves hold nothing else, and total_agents is the sum of the
   numbers of agents of the four waves. *)
C24_WavesPartitionAssignments ==
    Optimized =>
        LET waves == execution_plan[1].execution_waves
        IN /\ Len(waves) = 4
           /\ \A a \in DOMAIN agent_assignments :
                 /\ Cardinality({k \in 1..4 : a \in DOMAIN waves[k].agents}) = 1
                 /\ \A k \in 1..4 :
                       a \in DOMAIN waves[k].agents =>
                           waves[k].agents[a] = agent_assignments[a]
           /\ \A k \in 1..4 : DOMAIN waves[k].agents \subseteq DOMAIN agent_assignments
           /\ execution_plan[1].total_agents =
                 Cardinality(DOMAIN waves[1].agents) + Cardinality(DOMAIN waves[2].agents)
                 + Cardinality(DOMAIN waves[3].agents) + Cardinality(DOMAIN waves[4].agents)

(* Five worker types, of priorities 1, 2 and 3, spread over the four waves. *)
C24_Witness ==
    /\ Optimized
    /\ {agent_assignments[a].priority : a \in DOMAIN agent_assignments} = {1, 2, 3}
    /\ execution_plan[1].total_agents = 5
    /\ \A k \in 1..4 : DOMAIN execution_plan[1].execution_waves[k].agents # {}

(* C25: in the graph build_resource_dependency_graph returns, for resources r
   and d of the batch, d is in depends_on of r exactly when r is in
   depended_by of d, whatever the order of the two in the list. *)
C25_DependsOnMirroredInBatch ==
    SelectReturned =>
        \A r \in BatchIds : \A d \in BatchIds :
            d \in resource_graph[r].depends_on <=> r \in resource_graph[d].depended_by

(* C26: a run over mapped resources raises nothing when a Microsoft.Web/sites
   or Microsoft.CognitiveServices/accounts resource has no kind field or a
   null one, and such a resource is listed by the worker type the static
   table gives its type, and by no other. *)
C26_MissingOrNullKindIsNoSpecialCase ==
    (/\ SelectEnded
     /\ \A i \in 1..Len(resources) : resources[i].type \in DOMAIN agent_mapping)
    => /\ raised = None
       /\ \A i \in 1..Len(resources) :
             (/\ resources[i].type \in {TypeSites, TypeCognitive}
              /\ resources[i].kind.tag \in {"absent", "null"})
             => AssignmentsOf(resources[i].id) = {agent_mapping[resources[i].type]}

(* sum(d["estimated_time"] for d in assignments.values()) of the map optimized. *)
TotalSequentialTime ==
    SumOver([a \in DOMAIN agent_assignments |-> agent_assignments[a].estimated_time],
            DOMAIN agent_assignments)

(* The parallel time the efficiency 1 - parallel/total was computed from. *)
ParallelTime ==
    IF TotalSequentialTime = 0 THEN 0
    ELSE execution_plan[1].parallelization_efficiency.den
         - execution_plan[1].parallelization_efficiency.num

(* C27: the parallel time of the efficiency metric is at most
   estimated_total_time, the sum of the times of the four waves, which is at
   most the sum of the estimated_time of all assignments. *)
C27_ParallelTimeAtMostTotalTime ==
    Optimized =>
        /\ execution_plan[1].parallelization_efficiency.den =
              (IF TotalSequentialTime = 0 THEN 1 ELSE TotalSequentialTime)
        /\ ParallelTime <= execution_plan[1].estimated_total_time
        /\ execution_plan[1].estimated_total_time <= TotalSequentialTime
        /\ execution_plan[1].estimated_total_time =
              SumOver([k \in 1..4 |-> execution_plan[1].execution_waves[k].estimated_time],
                      1..4)

(* The 30 s VM worker without dependencies and the 40 s Key Vault worker with
   one: the parallel time is 40 and estimated_total_time is 70; the two are
   not equal. *)
C27_Witness ==
    /\ Optimized
    /\ DOMAIN agent_assignments =
          {ExtendedAgentType["VM_ASSESSMENT"], ExtendedAgentType["KEY_VAULT_ASSESSMENT"]}
    /\ ParallelTime = 40
    /\ execution_plan[1].estimated_total_time = 70
    /\ TotalSequentialTime = 70

(* The categories the search of the last find_relationship_chain call added
   to visited and expanded, in order. *)
ExpandedByQuery ==
    ChainSearch(resource_relationships, query.args[1], query.args[2]).expanded

(* C28: every call of find_relationship_chain returns, after at most one
   expansion for each category the catalog names: no category is expanded
   twice, also when its edges lead back to it. *)
C28_ChainExpandsEachCategoryOnce ==
    ChainQuery =>
        LET expanded == ExpandedByQuery
        IN /\ answer.raised = None
           /\ \A i \in 1..Len(expanded) : \A j \in 1..Len(expanded) :
                 expanded[i] = expanded[j] => i = j
           /\ Len(expanded) <= Cardinality(Categories)
           /\ \A i \in 1..Len(expanded) : expanded[i] # query.args[2]

(* A search that found nothing after it expanded a category from which edges
   lead back to that category. *)
C28_Witness ==
    /\ ChainQuery
    /\ answer.value = <<>>
    /\ LET expanded == ExpandedByQuery
       IN /\ Len(expanded) >= 10
          /\ \E i \in 1..Len(expanded) :
                expanded[i] \in
                    ReachableFrom(resource_relationships,
                                  Targets(resource_relationships, expanded[i]))

(* C29: a call of create_assessment_plan stores at most one plan, and the plan
   it stores is the one add_correlation_step has been called on, with
   correlation_step_added true; when the discovery returned no resources or a
   step before save_plan raised, nothing is stored; the call returns one of
   its three messages. *)
C29_SavedOnceAfterCorrelation ==
    pc = "returned" =>
        /\ Len(saved_plans) <= 1
        /\ \A i \in 1..Len(saved_plans) :
              /\ saved_plans[i].correlation_step_added
              /\ correlation_calls = 1
              /\ plan = <<saved_plans[i]>>
        /\ (EmptyDiscovery \/ response.exception \notin {None, "save_plan"})
              => saved_plans = <<>>
        /\ response.text \in {NoResourcesMessage.text, ErrorMessage(None).text,
                               PlanResponse.text}

(* A call that stored its plan, correlation step added, and returned the text
   of the plan. *)
C29_Witness ==
    /\ pc = "returned"
    /\ Len(saved_plans) = 1
    /\ saved_plans[1].correlation_step_added
    /\ Len(saved_plans[1].execution_waves) = 5
    /\ response = PlanResponse

(* C30: a call of initialize made while _initialized is true opens no HTTP
   session, attempts no connection and leaves the clients, the session and
   the flag as they are; a call of cleanup ends with mcp_clients empty and
   _initialized false, also when shutdowns raised; a call of initialize made
   while _initialized is false that does not raise opens a session, attempts
   the three connections and sets the flag. *)
C30_InitializeOncePerCleanup ==
    /\ (last_call.op = "initialize" /\ last_call.was_initialized) =>
          /\ last_call.opened = 0
          /\ last_call.attempted = {}
          /\ last_call.raised = None
          /\ _initialized
          /\ \A s \in DOMAIN mcp_clients : mcp_clients[s] < plugin_calls
    /\ last_call.op = "cleanup" =>
          /\ mcp_clients = NoClients
          /\ ~_initialized
          /\ last_call.raised = None
    /\ (last_call.op = "initialize" /\ ~last_call.was_initialized
                                     /\ last_call.raised = None) =>
          /\ last_call.opened = 1
          /\ last_call.attempted = Servers
          /\ _http_session = "open"
          /\ _initialized
          /\ \A s \in DOMAIN mcp_clients : mcp_clients[s] = plugin_calls

(* After a cleanup in which a shutdown raised, initialize has connected the
   three servers again, and a further initialize has changed nothing. *)
C30_Witness ==
    /\ shutdown_errors # {}
    /\ last_call.op = "initialize"
    /\ last_call.was_initialized
    /\ last_call.opened = 0
    /\ DOMAIN mcp_clients = Servers
    /\ \A s \in Servers : mcp_clients[s] = 3
    /\ plugin_calls = 4


=============================================================================
